---- MODULE Spec2Model ----
(***************************************************************************)
(* ship-toolkit: the Launch Readiness Scoring Engine                       *)
(* (src/lib/launch/reporter.ts, validator part) and the Workflow           *)
(* Orchestrator with its State Store (src/unnamed/part_011).               *)
(*                                                                         *)
(* The module holds several state machines over one set of variables:      *)
(*   SpecScore   - calculateSectionScore applied to bounded item lists     *)
(*   SpecLaunch  - runLaunchChecklist, one action per check provider       *)
(*   SpecResume  - canResumeWorkflow / getNextStep applied to states       *)
(*   Spec        - runCompleteWorkflow, one action per workflow step       *)
(*   SpecResumedRun - the same run, started over a persisted state         *)
(*   SpecHistory - saveToHistory / loadHistory on one history file         *)
(*   SpecStore   - create, update, save, load and clear of a WorkflowState *)
(*   SpecValidate - validateScore (src/unnamed/part_010)                   *)
(*   SpecDetect  - detectFramework (src/unnamed/part_010)                  *)
(*   SpecUpdate  - any sequence of updateWorkflowState calls                *)
(*   SpecConcurrentSave - two overlapping saveToHistory calls              *)
(* The calls of the store are async: SpecHistory, SpecStore and            *)
(* SpecConcurrentSave take them one await at a time.                       *)
(* A machine that is not running keeps its variables at their idle value.  *)
(***************************************************************************)
EXTENDS Integers, Sequences, FiniteSets

VARIABLES
    input,      \* argument of the pure function under evaluation
    output,     \* its result, NoValue until the function has returned; in the
                \* store, what the last step returned to a caller
    lpc,        \* runLaunchChecklist: next provider to call / "done" / "thrown"
    framework,  \* what detectFramework reports for the project
    sections,   \* runLaunchChecklist: const sections
    checklist,  \* runLaunchChecklist: the returned LaunchChecklist
    config,     \* runCompleteWorkflow: the config argument
    pc,         \* runCompleteWorkflow: position in the function body
    steps,      \* runCompleteWorkflow: const steps
    thrown,     \* ids of the steps whose work threw inside the try block
    result,     \* runCompleteWorkflow: the returned WorkflowResult
    startTime,  \* runCompleteWorkflow: const startTime
    now,        \* Date.now(), in milliseconds
    stateDir,   \* whether the directory .ship-toolkit exists
    stateFile,  \* text of .ship-toolkit/workflow-state.json, NoValue if absent
    history,    \* text of .ship-toolkit/workflow-history.json, NoValue if absent
    calls       \* the calls of the state store that are under way, per caller

vars == <<input, output, lpc, framework, sections, checklist,
          config, pc, steps, thrown, result, startTime, now,
          stateDir, stateFile, history, calls>>

scoreVars == <<input, output>>
launchVars == <<lpc, framework, sections, checklist>>
flowVars == <<config, pc, steps, thrown, result, startTime, now>>
storeVars == <<stateDir, stateFile, history, calls>>

\* an optional value (undefined | T) is a sequence of at most one element
NoValue == << >>
Some(x) == << x >>

----------------------------------------------------------------------------
(* Bounds *)

MaxItems == 4

\* most images the optimizer finds in a project
MaxImages == 1

\* the time, in milliseconds, one workflow step takes
StepMs == 1

----------------------------------------------------------------------------
(* JavaScript helpers *)

\* Math.round(num / den) for den > 0: the nearest integer, a .5 tie rounds up
MathRound(num, den) == (2 * num + den) \div (2 * den)

RECURSIVE SumSeq(_)
SumSeq(s) == IF s = <<>> THEN 0 ELSE Head(s) + SumSeq(Tail(s))

----------------------------------------------------------------------------
(* Launch checklist: data model (reporter.ts 471-497) *)

CheckStatus == {"pass", "fail", "warning", "skip"}

Item(id, status, required) == [id |-> id, status |-> status, required |-> required]

\* calculateSectionScore with integer division in place of Math.round
calculateSectionScore_Floor(items) ==
    IF Len(items) = 0 THEN 100
    ELSE LET total == Len(items)
             passed == Len(SelectSeq(items, LAMBDA i : i.status = "pass"))
             warnings == Len(SelectSeq(items, LAMBDA i : i.status = "warning"))
             skipped == Len(SelectSeq(items, LAMBDA i : i.status = "skip"))
         IN  ((passed * 100) + (warnings * 50) + (skipped * 75)) \div total

calculateSectionScore(items) ==
    IF Len(items) = 0 THEN 100
    ELSE LET total == Len(items)
             passed == Len(SelectSeq(items, LAMBDA i : i.status = "pass"))
             warnings == Len(SelectSeq(items, LAMBDA i : i.status = "warning"))
             skipped == Len(SelectSeq(items, LAMBDA i : i.status = "skip"))
         IN  MathRound((passed * 100) + (warnings * 50) + (skipped * 75), total)

Section(name, items, required) ==
    [required |-> required, items |-> items, name |-> name,
     score |-> calculateSectionScore(items)]

----------------------------------------------------------------------------
(* Check providers (reporter.ts 576-1128).  Each takes what it observes of   *)
(* the project: fw is detectFramework(projectRoot).framework, f the          *)
(* existence / content tests it makes.                                       *)

Frameworks == {"next-app", "next-pages", "static-html"}

PassOr(cond, other) == IF cond THEN "pass" ELSE other

AssetFacts == [favicon : BOOLEAN, ogImages : BOOLEAN, twitterImages : BOOLEAN,
               pwaIcons : BOOLEAN, manifest : BOOLEAN]

checkAssets(f) ==
    Section("Assets & Branding",
        << Item("favicon", PassOr(f.favicon, "fail"), TRUE),
           Item("og-images", PassOr(f.ogImages, "fail"), TRUE),
           Item("twitter-cards", PassOr(f.twitterImages, "warning"), FALSE),
           Item("pwa-icons", PassOr(f.pwaIcons, "warning"), FALSE),
           Item("manifest", PassOr(f.manifest, "warning"), FALSE) >>,
        TRUE)

\* sitemap: the sitemap file of the detected framework exists;
\* layoutMeta: app/layout.tsx exists and mentions metadata and description
SEOFacts == [sitemap : BOOLEAN, robots : BOOLEAN, layoutMeta : BOOLEAN]

checkSEO(fw, f) ==
    LET hasMetaTags == fw = "next-app" /\ f.layoutMeta
    IN  Section("SEO Optimization",
            << Item("sitemap", PassOr(f.sitemap, "fail"), TRUE),
               Item("robots", PassOr(f.robots, "fail"), TRUE),
               Item("meta-tags", PassOr(hasMetaTags, "warning"), TRUE),
               Item("structured-data", "skip", FALSE),
               Item("search-console", "skip", FALSE) >>,
            TRUE)

PerformanceFacts == [build : BOOLEAN, webpImages : BOOLEAN, configOptimized : BOOLEAN]

checkPerformance(fw, f) ==
    Section("Performance",
        << Item("build-output", PassOr(f.build, "warning"), TRUE),
           Item("optimized-images", PassOr(f.webpImages, "warning"), FALSE) >>
        \o (IF fw \in {"next-app", "next-pages"}
            THEN << Item("config-optimized", PassOr(f.configOptimized, "warning"), FALSE) >>
            ELSE << >>)
        \o << Item("lighthouse-score", "skip", FALSE),
              Item("core-web-vitals", "skip", FALSE) >>,
        TRUE)

SecurityFacts == [envIgnored : BOOLEAN, configHeaders : BOOLEAN]

checkSecurity(fw, f) ==
    LET hasSecurityHeaders == fw \in {"next-app", "next-pages"} /\ f.configHeaders
    IN  Section("Security",
            << Item("env-gitignore", PassOr(f.envIgnored, "warning"), TRUE),
               Item("security-headers", PassOr(hasSecurityHeaders, "warning"), FALSE),
               Item("dependencies", "skip", FALSE),
               Item("no-secrets", "skip", TRUE),
               Item("https", "skip", TRUE) >>,
            TRUE)

\* notFound: the 404 page of the detected framework exists
FunctionalityFacts == [notFound : BOOLEAN]

checkFunctionality(fw, f) ==
    LET has404 == fw \in {"next-app", "next-pages"} /\ f.notFound
    IN  Section("Functionality",
            << Item("404-page", PassOr(has404, "warning"), FALSE),
               Item("error-handling", "skip", FALSE),
               Item("forms", "skip", FALSE),
               Item("links", "skip", FALSE),
               Item("mobile-responsive", "skip", FALSE) >>,
            FALSE)

\* fw is not consulted: the three items are fixed
checkAnalytics(fw) ==
    Section("Analytics & Monitoring",
        << Item("analytics", "skip", FALSE),
           Item("error-tracking", "skip", FALSE),
           Item("performance-monitoring", "skip", FALSE) >>,
        FALSE)

DocumentationFacts == [readme : BOOLEAN, changelog : BOOLEAN]

checkDocumentation(f) ==
    Section("Documentation",
        << Item("readme", PassOr(f.readme, "warning"), FALSE),
           Item("changelog", PassOr(f.changelog, "skip"), FALSE),
           Item("api-docs", "skip", FALSE) >>,
        FALSE)

\* fw is not consulted: the three items are fixed
checkLegal(fw) ==
    Section("Legal & Compliance",
        << Item("privacy-policy", "skip", FALSE),
           Item("terms", "skip", FALSE),
           Item("cookies", "skip", FALSE) >>,
        FALSE)

----------------------------------------------------------------------------
(* runLaunchChecklist: aggregation (reporter.ts 533-561) *)

ReadyThreshold == 70

\* overall score weighted by the number of items of each section
OverallScore_ItemWeighted(secs) ==
    MathRound(SumSeq([i \in DOMAIN secs |-> secs[i].score * Len(secs[i].items)]),
              SumSeq([i \in DOMAIN secs |-> Len(secs[i].items)]))

OverallScore(secs) ==
    LET totalScore == SumSeq([i \in DOMAIN secs |-> secs[i].score])
    IN  MathRound(totalScore, Len(secs))

\* the body of the inner forEach, with the warning branch taken by
\* non-required items only
CollectItem_OptionalWarnings(acc, item) ==
    IF item.status = "fail" /\ item.required
    THEN [acc EXCEPT !.criticalIssues = Append(@, item)]
    ELSE IF item.status = "warning" /\ ~item.required
         THEN [acc EXCEPT !.warnings = Append(@, item)]
         ELSE acc

\* the body of the inner forEach: push item on one of the two lists
CollectItem(acc, item) ==
    IF item.status = "fail" /\ item.required
    THEN [acc EXCEPT !.criticalIssues = Append(@, item)]
    ELSE IF item.status = "warning"
         THEN [acc EXCEPT !.warnings = Append(@, item)]
         ELSE acc

RECURSIVE CollectItems(_, _)
CollectItems(acc, items) ==
    IF items = <<>> THEN acc
    ELSE CollectItems(CollectItem(acc, Head(items)), Tail(items))

RECURSIVE CollectSections(_, _)
CollectSections(acc, secs) ==
    IF secs = <<>> THEN acc
    ELSE CollectSections(CollectItems(acc, Head(secs).items), Tail(secs))

\* readiness decided by the score alone
ReadyToLaunch_ScoreOnly(criticalIssues, overallScore) ==
    overallScore >= ReadyThreshold

ReadyToLaunch(criticalIssues, overallScore) ==
    Len(criticalIssues) = 0 /\ overallScore >= ReadyThreshold

BuildChecklist(secs) ==
    LET overallScore == OverallScore(secs)
        col == CollectSections([criticalIssues |-> <<>>, warnings |-> <<>>], secs)
    IN  [criticalIssues |-> col.criticalIssues,
         overallScore |-> overallScore,
         sections |-> secs,
         warnings |-> col.warnings,
         readyToLaunch |-> ReadyToLaunch(col.criticalIssues, overallScore)]

----------------------------------------------------------------------------
(* Workflow orchestrator: data model (part_011 44-89) *)

ConfigKeys == {"skipAssets", "skipSEO", "skipPerf", "skipDeploy"}

\* a WorkflowConfig: every key is optional
WorkflowConfigs ==
    UNION {[keys -> BOOLEAN] : keys \in SUBSET ConfigKeys}

DEFAULT_CONFIG ==
    [k \in ConfigKeys |-> IF k = "skipDeploy" THEN TRUE ELSE FALSE]

\* { ...DEFAULT_CONFIG, ...config }
MergeConfig(defaults, cfg) ==
    [k \in DOMAIN defaults \cup DOMAIN cfg |->
        IF k \in DOMAIN cfg THEN cfg[k] ELSE defaults[k]]

\* const step = { id, ..., status: 'running', startTime: new Date() }
NewStep(id, t) ==
    [id |-> id, status |-> "running", startTime |-> t, endTime |-> NoValue,
     duration |-> NoValue, error |-> NoValue, result |-> NoValue]

\* the body of a step's try block ended normally
Finish(step, status, payload) ==
    [step EXCEPT !.status = status, !.result = Some(payload)]

\* catch (error): the error is kept in the step and counted as completed
CatchError_Completed(step, error) ==
    [step EXCEPT !.status = "completed", !.error = Some(error)]

\* catch (error) { step.status = 'failed'; step.error = String(error); }
CatchError(step, error) ==
    [step EXCEPT !.status = "failed", !.error = Some(error)]

\* a stamp whose duration is the end time itself, not the time since the start
Stamp_DurationFromEpoch(step, t) ==
    [step EXCEPT !.endTime = Some(t), !.duration = Some(t)]

\* step.endTime = new Date(); step.duration = endTime - startTime
Stamp(step, t) ==
    [step EXCEPT !.endTime = Some(t), !.duration = Some(t - step.startTime)]

\* optional chaining: opt?.field
Field(opt, name) ==
    IF Len(opt) = 0 THEN NoValue
    ELSE IF name \in DOMAIN opt[1] THEN Some(opt[1][name]) ELSE NoValue

\* steps[i]?.result?.field, i counted from 0
StepResultField(stepList, i, name) ==
    IF i + 1 \in DOMAIN stepList THEN Field(stepList[i + 1].result, name) ELSE NoValue

\* x || 0 for an optional number x
OrZero(opt) == IF Len(opt) = 0 THEN 0 ELSE opt[1]

\* x || false for an optional boolean x
OrFalse(opt) == IF Len(opt) = 0 THEN FALSE ELSE opt[1]

StepIds(stepList) == {stepList[i].id : i \in DOMAIN stepList}

----------------------------------------------------------------------------
(* Workflow steps (part_011 168-421).  obs is what the step's work observes   *)
(* or whether it threw; t0 and t1 are the clock at its start and its end.     *)

ErrorText == "Error: step failed"

AssetObservations ==
    [threw : BOOLEAN, totalImages : 0..MaxImages, optimized : 0..MaxImages]

runAssetGeneration(obs, t0, t1) ==
    LET step == NewStep("assets", t0)
    IN  Stamp(IF obs.threw THEN CatchError(step, ErrorText)
              ELSE IF obs.totalImages > 0
                   THEN Finish(step, "completed", [assetsGenerated |-> obs.optimized])
                   ELSE Finish(step, "skipped", [assetsGenerated |-> 0]),
              t1)

\* nothing in the try block of runSEOOptimization rejects: detectFramework and
\* checkFileExists catch their own errors
SEOObservations ==
    [framework : Frameworks, sitemap : BOOLEAN, robots : BOOLEAN,
     manifest : BOOLEAN, layout : BOOLEAN]

SEOPointsPerItem == 25

runSEOOptimization(obs, t0, t1) ==
    LET step == NewStep("seo", t0)
        found == {k \in {"sitemap", "robots", "manifest"} : obs[k]}
                 \cup {k \in {"layout"} : obs.framework = "next-app" /\ obs.layout}
        itemsFound == Cardinality(found)
    IN  Stamp(Finish(step, "completed",
                     [seoScore |-> itemsFound * SEOPointsPerItem, itemsFound |-> itemsFound]),
              t1)

PerfBaseScore == 70
PerfBonus == 10
BigSavings == 1000000

PerfObservations ==
    {o \in [threw : BOOLEAN, imagesOptimized : 0..MaxImages,
            bytesSaved : {0, BigSavings, BigSavings + 1}] :
        o.imagesOptimized = 0 => o.bytesSaved = 0}

runPerformanceOptimization(obs, t0, t1) ==
    LET step == NewStep("performance", t0)
        performanceScore ==
            PerfBaseScore
            + (IF obs.imagesOptimized > 0 THEN PerfBonus ELSE 0)
            + (IF obs.bytesSaved > BigSavings THEN PerfBonus ELSE 0)
    IN  Stamp(IF obs.threw THEN CatchError(step, ErrorText)
              ELSE Finish(step, "completed",
                          [performanceScore |-> performanceScore,
                           imagesOptimized |-> obs.imagesOptimized,
                           bytesSaved |-> obs.bytesSaved]),
              t1)

\* what runCompleteWorkflow reads of a LaunchChecklist
ChecklistSummary(c) ==
    [overallScore |-> c.overallScore, readyToLaunch |-> c.readyToLaunch]

\* the summary of a checklist depends on a section only through its score and
\* the number of its critical issues: one section of each such class is kept
SectionClass(sec) ==
    << sec.score, Len(SelectSeq(sec.items, LAMBDA i : i.status = "fail" /\ i.required)) >>

Representatives(secs) ==
    {CHOOSE sec \in secs : SectionClass(sec) = k : k \in {SectionClass(sec) : sec \in secs}}

\* every checklist runLaunchChecklist can return, as the orchestrator reads it
LaunchChecklists ==
    UNION {
        {ChecklistSummary(BuildChecklist(
            << a, s, p, x, n, checkAnalytics(fw), d, checkLegal(fw) >>)) :
            a \in Representatives({checkAssets(f) : f \in AssetFacts}),
            s \in Representatives({checkSEO(fw, f) : f \in SEOFacts}),
            p \in Representatives({checkPerformance(fw, f) : f \in PerformanceFacts}),
            x \in Representatives({checkSecurity(fw, f) : f \in SecurityFacts}),
            n \in Representatives({checkFunctionality(fw, f) : f \in FunctionalityFacts}),
            d \in Representatives({checkDocumentation(f) : f \in DocumentationFacts})}
        : fw \in Frameworks}

\* threw: runLaunchChecklist rejected; otherwise it returned the checklist
runLaunchChecklistValidation(threw, c, t0, t1) ==
    LET step == NewStep("launch-checklist", t0)
    IN  Stamp(IF threw THEN CatchError(step, ErrorText)
              ELSE Finish(step, "completed", c),
              t1)

DeployUrl == "https://your-app.vercel.app"

\* the try block only logs and marks the step skipped
runDeployment(t0, t1) ==
    Stamp(Finish(NewStep("deployment", t0), "skipped",
                 [url |-> DeployUrl, skipped |-> TRUE]),
          t1)

----------------------------------------------------------------------------
(* runCompleteWorkflow: decisions and result (part_011 128-163) *)

\* the deployment condition without the readiness test
ShouldDeploy_IgnoreReady(finalConfig, launchChecklist) ==
    ~finalConfig.skipDeploy

\* !finalConfig.skipDeploy && launchChecklist?.readyToLaunch
ShouldDeploy(finalConfig, launchChecklist) ==
    ~finalConfig.skipDeploy /\ OrFalse(Field(launchChecklist, "readyToLaunch"))

\* success counted on completed steps only
OverallSuccess_CompletedOnly(stepList) ==
    \A i \in DOMAIN stepList : stepList[i].status = "completed"

\* steps.every(s => s.status === 'completed' || s.status === 'skipped')
OverallSuccess(stepList) ==
    \A i \in DOMAIN stepList :
        stepList[i].status = "completed" \/ stepList[i].status = "skipped"

Summary(stepList, launchChecklist) ==
    [assetsGenerated |-> OrZero(StepResultField(stepList, 0, "assetsGenerated")),
     seoScore |-> OrZero(StepResultField(stepList, 1, "seoScore")),
     performanceScore |-> OrZero(StepResultField(stepList, 2, "performanceScore")),
     launchScore |-> OrZero(Field(launchChecklist, "overallScore")),
     readyToLaunch |-> OrFalse(Field(launchChecklist, "readyToLaunch"))]

WorkflowResult(stepList, launchChecklist, deploymentUrl, t0, t1) ==
    [steps |-> stepList,
     overallSuccess |-> OverallSuccess(stepList),
     totalDuration |-> t1 - t0,
     launchChecklist |-> launchChecklist,
     deploymentUrl |-> deploymentUrl,
     summary |-> Summary(stepList, launchChecklist)]

----------------------------------------------------------------------------
(* Workflow State Store (part_011 558-774) *)

WorkflowStatus == {"in-progress", "completed", "failed", "cancelled"}

TerminalStatus == {"completed", "failed", "skipped"}

DayMs == 24 * 60 * 60 * 1000

\* createWorkflowState(projectRoot, totalSteps, config) called at time t
createWorkflowState(totalSteps, t) ==
    [id |-> "workflow", status |-> "in-progress", currentStep |-> 0,
     totalSteps |-> totalSteps, steps |-> << >>, startTime |-> t, lastUpdate |-> t]

\* an update that pushes the step whether or not its id is already listed
UpsertStep_AlwaysPush(stepList, step) == Append(stepList, step)

\* state.steps with step put at the index of the step of the same id, or pushed
UpsertStep(stepList, step) ==
    IF \E i \in DOMAIN stepList : stepList[i].id = step.id
    THEN LET existingIndex ==
                 CHOOSE i \in DOMAIN stepList :
                     /\ stepList[i].id = step.id
                     /\ \A j \in 1..(i - 1) : stepList[j].id # step.id
         IN  [stepList EXCEPT ![existingIndex] = step]
    ELSE Append(stepList, step)

\* updateWorkflowState(state, step) called at time t
updateWorkflowState(state, step, t) ==
    LET newSteps == UpsertStep(state.steps, step)
        currentStep ==
            IF step.status \in TerminalStatus
            THEN Len(SelectSeq(newSteps, LAMBDA x : x.status \in TerminalStatus))
            ELSE state.currentStep
        hasFailures == \E i \in DOMAIN newSteps : newSteps[i].status = "failed"
        status ==
            IF currentStep >= state.totalSteps
            THEN IF hasFailures THEN "failed" ELSE "completed"
            ELSE state.status
    IN  [state EXCEPT !.steps = newSteps, !.lastUpdate = t,
                      !.currentStep = currentStep, !.status = status]

\* the time of an Invalid Date (new Date(undefined)): getTime() is NaN, every
\* comparison with it is false and JSON.stringify writes it as null
InvalidDate == -1

\* the age test with the 24 hours included
canResumeWorkflow_Inclusive(state, t) ==
    /\ state.status = "in-progress"
    /\ state.currentStep < state.totalSteps
    /\ state.lastUpdate # InvalidDate
    /\ t - state.lastUpdate <= DayMs

\* canResumeWorkflow(state) called at time t
canResumeWorkflow(state, t) ==
    /\ state.status = "in-progress"
    /\ state.currentStep < state.totalSteps
    /\ state.lastUpdate # InvalidDate
    /\ t - state.lastUpdate < DayMs

getNextStep(state) == state.currentStep

----------------------------------------------------------------------------
(* Workflow State Store: the files (part_011 570-694).  A file text is kept   *)
(* as what JSON.parse makes of it: shape says whether it parses and to what   *)
(* kind of value, value is the parsed value.  The shape object is an object   *)
(* whose steps are a list: of steps, and possibly of null or of numbers.      *)

TextShapes == {"garbage", "null", "number", "array", "object-without-steps", "object"}

\* a text JSON.parse rejects
Garbage == [shape |-> "garbage", value |-> << >>]

\* a text that parses to a value of the given shape
JSONText(shape, value) == [shape |-> shape, value |-> value]

\* the JSON value null
JSONNull == [null |-> TRUE]

\* a JSON number where an object is expected
JSONNumber == [number |-> TRUE]

\* the object without fields
EmptyObject == << >>

\* Date.prototype.toJSON of the date of time t: its ISO string, null for an
\* Invalid Date
ISO(t) == IF t = InvalidDate THEN JSONNull ELSE [iso |-> t]

\* new Date(value) of a parsed ISO string, as its time; new Date(null) is the
\* epoch
NewDate(str) == IF "iso" \in DOMAIN str THEN str.iso ELSE 0

\* a Date object inside a value of type any (LaunchChecklist.timestamp)
DateObject(t) == [date |-> t]

\* JSON.stringify of a step result: its Date fields become ISO strings
ValueToJSON(payload) ==
    [k \in DOMAIN payload |->
        IF k = "timestamp" THEN ISO(payload[k].date) ELSE payload[k]]

\* JSON.stringify of a WorkflowStep: undefined fields are dropped
StepToJSON(step) ==
    [step EXCEPT !.startTime = ISO(@),
                 !.endTime = IF Len(@) = 0 THEN @ ELSE Some(ISO(@[1])),
                 !.result = IF Len(@) = 0 THEN @ ELSE Some(ValueToJSON(@[1]))]

\* JSON.stringify(state, null, 2)
StateToJSON(state) ==
    JSONText("object",
             [state EXCEPT !.startTime = ISO(@), !.lastUpdate = ISO(@),
                           !.steps = [i \in DOMAIN @ |-> StepToJSON(@[i])]])

\* saveWorkflowState(projectRoot, state): the directory and the file afterwards
saveWorkflowState(dir, state) ==
    [dir |-> TRUE, file |-> Some(StateToJSON(state))]

\* step.startTime ? new Date(step.startTime) : undefined, of a value of the
\* file: null is falsy, an ISO string is not
Truthy(str) == str # JSONNull

\* { ...step, startTime: step.startTime ? new Date(step.startTime) : undefined,
\*   endTime: step.endTime ? new Date(step.endTime) : undefined }: a step whose
\* startTime is undefined is the record without that field; the spread of a
\* number has no fields and its startTime and endTime are undefined
ReviveStep(step) ==
    IF step = JSONNumber THEN EmptyObject ELSE
    LET revived ==
            [step EXCEPT !.startTime = NewDate(@),
                         !.endTime = IF Len(@) = 0 \/ ~Truthy(@[1])
                                     THEN NoValue ELSE Some(NewDate(@[1]))]
    IN  IF Truthy(step.startTime)
        THEN revived
        ELSE [k \in DOMAIN step \ {"startTime"} |-> revived[k]]

\* state.startTime = new Date(state.startTime), of a key that may be missing
NewDateOf(object, key) ==
    IF key \in DOMAIN object THEN NewDate(object[key]) ELSE InvalidDate

\* lines 611-619 on a parsed object that has a list of steps
Revive(object) ==
    [k \in DOMAIN object \cup {"startTime", "lastUpdate"} |->
        CASE k \in {"startTime", "lastUpdate"} -> NewDateOf(object, k)
          [] k = "steps" -> [i \in DOMAIN object.steps |-> ReviveStep(object.steps[i])]
          [] OTHER -> object[k]]

\* the callback of state.steps.map reads step.startTime, which throws on a
\* step that is null
HasNullStep(object) == \E i \in DOMAIN object.steps : object.steps[i] = JSONNull

\* a rejected JSON.parse and a throwing callback pass the catch block by
loadWorkflowState_NoCatch(file) ==
    IF file = NoValue THEN [threw |-> FALSE, value |-> NoValue]
    ELSE IF file[1].shape = "object"
         THEN IF HasNullStep(file[1].value)
              THEN [threw |-> TRUE, value |-> NoValue]
              ELSE [threw |-> FALSE, value |-> Some(Revive(file[1].value))]
         ELSE [threw |-> file[1].shape = "garbage", value |-> NoValue]

\* loadWorkflowState(projectRoot): value is NoValue for null.  JSON.parse of
\* garbage, the assignments to null or to a number, .map of steps that are
\* no list and the callback on a step that is null all throw inside the try
\* block
loadWorkflowState(file) ==
    IF file = NoValue THEN [threw |-> FALSE, value |-> NoValue]
    ELSE IF file[1].shape = "object" /\ ~HasNullStep(file[1].value)
         THEN [threw |-> FALSE, value |-> Some(Revive(file[1].value))]
         ELSE [threw |-> FALSE, value |-> NoValue]

\* clearWorkflowState(projectRoot): the file afterwards
clearWorkflowState(file) == NoValue

\* the number of runs the history keeps
HistoryLimit == 10

\* the entry saveToHistory builds at time t, as JSON.stringify writes it
HistoryEntry(run, t) ==
    [timestamp |-> ISO(t),
     duration |-> run.totalDuration,
     success |-> run.overallSuccess,
     summary |-> run.summary,
     steps |-> [i \in DOMAIN run.steps |->
                   [id |-> run.steps[i].id,
                    status |-> run.steps[i].status,
                    duration |-> run.steps[i].duration]]]

\* history.slice(0, n)
Slice(list, n) == SubSeq(list, 1, IF Len(list) < n THEN Len(list) ELSE n)

\* let history = []; replaced by the parsed file when it exists and parses
ExistingHistory(file) ==
    IF file = NoValue \/ file[1].shape = "garbage"
    THEN JSONText("array", << >>)
    ELSE file[1]

\* a save that writes the new entry alone and drops what the file held
saveToHistory_OnlyNewEntry(dir, file, run, t) ==
    LET existing == ExistingHistory(file)
    IN  IF existing.shape # "array" \/ ~dir
        THEN [threw |-> TRUE, file |-> file]
        ELSE [threw |-> FALSE,
              file |-> Some(JSONText("array", <<HistoryEntry(run, t)>>))]

\* the history keeps one run more than the limit
saveToHistory_OffByOne(dir, file, run, t) ==
    LET existing == ExistingHistory(file)
    IN  IF existing.shape # "array" \/ ~dir
        THEN [threw |-> TRUE, file |-> file]
        ELSE [threw |-> FALSE,
              file |-> Some(JSONText("array",
                          Slice(<<HistoryEntry(run, t)>> \o existing.value,
                                HistoryLimit + 1)))]

\* saveToHistory(projectRoot, result) at time t: whether it threw and the file
\* afterwards.  history.unshift throws when the parsed value is no array;
\* fs.writeFile throws when the directory does not exist (nothing creates it)
saveToHistory(dir, file, run, t) ==
    LET existing == ExistingHistory(file)
    IN  IF existing.shape # "array" \/ ~dir
        THEN [threw |-> TRUE, file |-> file]
        ELSE [threw |-> FALSE,
              file |-> Some(JSONText("array",
                          Slice(<<HistoryEntry(run, t)>> \o existing.value,
                                HistoryLimit)))]

\* loadHistory(projectRoot): the parsed file, [] when absent or unparsable
loadHistory(file) == ExistingHistory(file)

----------------------------------------------------------------------------
(* Calls of the state store under way.  The functions of the store are async: *)
(* a call runs up to an await, the awaited file operation runs, and the call  *)
(* goes on in a later turn; other calls run in between.  fs.writeFile itself  *)
(* opens the file, which empties it, and fills it later.                      *)

\* the callers whose calls may overlap
Callers == {1, 2}

\* a call: its function, the await it stands at, what it holds there, the
\* turns of its steps so far, and how many saveToHistory calls the caller has
\* begun and how many of them returned
Call(name, stage, held, log, begun, returned) ==
    [name |-> name, stage |-> stage, held |-> held, log |-> log,
     begun |-> begun, returned |-> returned]

NoCalls == [c \in Callers |-> Call("none", "idle", NoValue, << >>, 0, 0)]

\* the caller has no call under way
Settled(c) == calls[c].stage \in {"idle", "returned", "threw"}

\* the number of steps the saveToHistory calls have taken
Turn == Len(calls[1].log) + Len(calls[2].log)

\* call d is between the opening of its file and the end of its write
Writing(d, name) == calls[d].name = name /\ calls[d].stage \in {"writing", "mixed"}

\* calls once fs.writeFile of call c has opened its file: a call of the same
\* function that is still writing now shares the file with it
Opened(c) ==
    LET shared == \E d \in Callers \ {c} : Writing(d, calls[c].name)
    IN  [d \in Callers |->
            IF d = c
            THEN [calls[c] EXCEPT !.stage = IF shared THEN "mixed" ELSE "writing"]
            ELSE IF Writing(d, calls[c].name)
                 THEN [calls[d] EXCEPT !.stage = "mixed"]
                 ELSE calls[d]]

\* the texts the file may hold once the write of text by call c has ended:
\* the text; when two writes shared the file, also a mix of them that does
\* not parse or what the other write left; when the file was unlinked
\* meanwhile, what is there now
WrittenTexts(c, text, file) ==
    CASE calls[c].stage = "writing" -> {text}
      [] calls[c].stage = "mixed" -> {Some(Garbage), text, file}
      [] calls[c].stage = "unlinked" -> {file}

----------------------------------------------------------------------------
(* Idle values of the machines *)

ScoreIdle == input = NoValue /\ output = NoValue

LaunchIdle ==
    /\ lpc = "idle"
    /\ framework = "none"
    /\ sections = << >>
    /\ checklist = NoValue

FlowIdle ==
    /\ config = NoValue
    /\ pc = "idle"
    /\ steps = << >>
    /\ thrown = {}
    /\ result = NoValue
    /\ startTime = 0
    /\ now = 0

StoreIdle ==
    /\ stateDir = FALSE
    /\ stateFile = NoValue
    /\ history = NoValue
    /\ calls = NoCalls

----------------------------------------------------------------------------
(* SpecScore: calculateSectionScore on every item list of up to MaxItems *)

ItemLists ==
    LET items == {Item("item", s, r) : s \in CheckStatus, r \in BOOLEAN}
    IN  UNION {[1..n -> items] : n \in 0..MaxItems}

InitScore ==
    /\ input \in ItemLists
    /\ output = NoValue
    /\ LaunchIdle /\ FlowIdle /\ StoreIdle

CalculateSectionScore ==
    /\ output = NoValue
    /\ output' = Some(calculateSectionScore(input))
    /\ UNCHANGED <<input, launchVars, flowVars, storeVars>>

NextScore == CalculateSectionScore

SpecScore == InitScore /\ [][NextScore]_vars

----------------------------------------------------------------------------
(* SpecLaunch: runLaunchChecklist (reporter.ts 502-571).  One action per     *)
(* awaited provider; the last one runs on to the return statement.           *)

InitLaunch ==
    /\ lpc = "checkAssets"
    /\ framework \in Frameworks
    /\ sections = << >>
    /\ checklist = NoValue
    /\ ScoreIdle /\ FlowIdle /\ StoreIdle

\* sections.push(await provider(projectRoot))
PushSection(at, section, next) ==
    /\ lpc = at
    /\ sections' = Append(sections, section)
    /\ lpc' = next
    /\ UNCHANGED <<framework, checklist, scoreVars, flowVars, storeVars>>

CheckAssets ==
    \E f \in AssetFacts : PushSection("checkAssets", checkAssets(f), "checkSEO")

CheckSEO ==
    \E f \in SEOFacts :
        PushSection("checkSEO", checkSEO(framework, f), "checkPerformance")

CheckPerformance ==
    \E f \in PerformanceFacts :
        PushSection("checkPerformance", checkPerformance(framework, f), "checkSecurity")

CheckSecurity ==
    \E f \in SecurityFacts :
        PushSection("checkSecurity", checkSecurity(framework, f), "checkFunctionality")

CheckFunctionality ==
    \E f \in FunctionalityFacts :
        PushSection("checkFunctionality", checkFunctionality(framework, f), "checkAnalytics")

CheckAnalytics == PushSection("checkAnalytics", checkAnalytics(framework), "checkDocumentation")

CheckDocumentation ==
    \E f \in DocumentationFacts :
        PushSection("checkDocumentation", checkDocumentation(f), "checkLegal")

\* the last provider, then lines 533-570 up to the return
CheckLegalAndReturn ==
    /\ lpc = "checkLegal"
    /\ sections' = Append(sections, checkLegal(framework))
    /\ checklist' = Some(BuildChecklist(sections'))
    /\ lpc' = "done"
    /\ UNCHANGED <<framework, scoreVars, flowVars, storeVars>>

\* the providers that await glob() or fs.readFile() outside any try block:
\* a rejected promise leaves runLaunchChecklist as an exception
ThrowingProviders == {"checkAssets", "checkSEO", "checkPerformance", "checkSecurity"}

ProviderThrows ==
    /\ lpc \in ThrowingProviders
    /\ lpc' = "thrown"
    /\ UNCHANGED <<framework, sections, checklist, scoreVars, flowVars, storeVars>>

NextLaunch ==
    \/ CheckAssets
    \/ CheckSEO
    \/ CheckPerformance
    \/ CheckSecurity
    \/ CheckFunctionality
    \/ CheckAnalytics
    \/ CheckDocumentation
    \/ CheckLegalAndReturn
    \/ ProviderThrows

SpecLaunch == InitLaunch /\ [][NextLaunch]_vars

----------------------------------------------------------------------------
(* Properties of the scoring engine *)

Points(status) ==
    CASE status = "pass" -> 100
      [] status = "warning" -> 50
      [] status = "skip" -> 75
      [] status = "fail" -> 0

\* r is num/den rounded to the nearest integer, a .5 tie going up
IsNearest(r, num, den) ==
    /\ 2 * den * r - den <= 2 * num
    /\ 2 * num < 2 * den * r + den

Statuses(items) == [i \in DOMAIN items |-> items[i].status]

RECURSIVE Flatten(_)
Flatten(secs) ==
    IF secs = << >> THEN << >> ELSE Head(secs).items \o Flatten(Tail(secs))

IsCritical(item) == item.status = "fail" /\ item.required
IsWarning(item) == item.status = "warning"

\* C1: for a non-empty item list calculateSectionScore returns the mean of the
\* items' points (pass 100, warning 50, skip 75, fail 0) rounded to the nearest
\* integer, ties up; [pass, warning, skip, fail] gives 56; an empty list gives 100.
C1_SectionScore ==
    Len(output) = 1 =>
        LET n == Len(input)
            sum == SumSeq([i \in 1..n |-> Points(input[i].status)])
        IN  /\ n = 0 => output[1] = 100
            /\ n > 0 => IsNearest(output[1], sum, n)
            /\ Statuses(input) = <<"pass", "warning", "skip", "fail">> => output[1] = 56

\* the example of the claim has been scored, and so has a .5 tie ([skip, fail])
C1_Witness ==
    /\ Len(output) = 1
    /\ Statuses(input) = <<"pass", "warning", "skip", "fail">>
    /\ output[1] = 56

\* C2: the returned checklist is ready to launch exactly when no item of any
\* section is a required item with status fail and the overall score is 70 or more.
C2_ReadyIff ==
    lpc = "done" =>
        LET c == checklist[1]
            requiredFail ==
                \E i \in DOMAIN c.sections : \E j \in DOMAIN c.sections[i].items :
                    /\ c.sections[i].items[j].status = "fail"
                    /\ c.sections[i].items[j].required
        IN  c.readyToLaunch <=> (~requiredFail /\ c.overallScore >= 70)

\* one required item fails, the score is 70 or more, and the verdict is not ready
C2_Witness ==
    /\ lpc = "done"
    /\ Len(checklist[1].criticalIssues) = 1
    /\ checklist[1].overallScore >= 70
    /\ ~checklist[1].readyToLaunch

\* C3: the overall score is the mean of the section scores rounded to the nearest
\* integer; every section has weight one, whatever its length or required flag.
C3_OverallMean ==
    lpc = "done" =>
        LET c == checklist[1]
            n == Len(c.sections)
            sum == SumSeq([i \in 1..n |-> c.sections[i].score])
        IN  IsNearest(c.overallScore, sum, n)

\* sections of different lengths and required flags, a mean that is no integer
C3_Witness ==
    /\ lpc = "done"
    /\ LET c == checklist[1]
           n == Len(c.sections)
           sum == SumSeq([i \in 1..n |-> c.sections[i].score])
       IN  /\ \E i, j \in 1..n :
                 /\ Len(c.sections[i].items) # Len(c.sections[j].items)
                 /\ c.sections[i].required # c.sections[j].required
                 /\ c.sections[i].score # c.sections[j].score
           /\ sum % n # 0
           /\ c.overallScore * n > sum

\* C4: criticalIssues is the sequence of the required failing items and warnings
\* the sequence of the items with status warning, both in section then item order.
C4_IssueLists ==
    lpc = "done" =>
        LET c == checklist[1]
            all == Flatten(c.sections)
        IN  /\ c.criticalIssues = SelectSeq(all, IsCritical)
            /\ c.warnings = SelectSeq(all, IsWarning)

\* critical issues from two sections, warnings on required and optional items
C4_Witness ==
    /\ lpc = "done"
    /\ LET c == checklist[1]
       IN  /\ Len(c.criticalIssues) >= 3
           /\ c.criticalIssues[1].id = "favicon"
           /\ c.criticalIssues[Len(c.criticalIssues)].id = "robots"
           /\ \E i, j \in DOMAIN c.warnings :
                 c.warnings[i].required /\ ~c.warnings[j].required
           /\ \E i \in DOMAIN c.sections : \E j \in DOMAIN c.sections[i].items :
                 c.sections[i].items[j].status \in {"pass", "skip"}

----------------------------------------------------------------------------
(* SpecResume: canResumeWorkflow and getNextStep on bounded states *)

HourMs == 60 * 60 * 1000

\* the states are aged up to MaxHours hours, to the millisecond around each hour
MaxHours == 25

\* most steps a workflow state counts
MaxSteps == 5

Ages == {a \in {h * HourMs + e : h \in 0..MaxHours, e \in {-1, 0, 1}} : a >= 0}

ResumeInputs ==
    {[state |-> [createWorkflowState(total, 0) EXCEPT !.status = st, !.currentStep = cur],
      now |-> age] :
        total \in 0..MaxSteps, cur \in 0..MaxSteps, st \in WorkflowStatus, age \in Ages}

InitResume ==
    /\ input \in ResumeInputs
    /\ output = NoValue
    /\ LaunchIdle /\ FlowIdle /\ StoreIdle

CanResumeWorkflow ==
    /\ output = NoValue
    /\ output' = Some([canResume |-> canResumeWorkflow(input.state, input.now),
                       nextStep |-> getNextStep(input.state)])
    /\ UNCHANGED <<input, launchVars, flowVars, storeVars>>

NextResume == CanResumeWorkflow

SpecResume == InitResume /\ [][NextResume]_vars

----------------------------------------------------------------------------
(* Spec: runCompleteWorkflow (part_011 94-163).  One action per numbered     *)
(* step of the function; the last one runs on to the return statement.       *)

finalConfig == MergeConfig(DEFAULT_CONFIG, config)

InitRun ==
    /\ config \in WorkflowConfigs
    /\ pc = "assets"
    /\ steps = << >>
    /\ thrown = {}
    /\ result = NoValue
    /\ startTime = now

Init ==
    /\ now = 0
    /\ InitRun
    /\ StoreIdle
    /\ ScoreIdle /\ LaunchIdle

\* a runner that puts each finished step in front of the earlier ones
PushStep_Unshift(step, threw) ==
    /\ steps' = <<step>> \o steps
    /\ thrown' = IF threw THEN thrown \cup {step.id} ELSE thrown
    /\ now' = now + StepMs

\* const s = await run...(); steps.push(s), the clock at the end of the step
PushStep(step, threw) ==
    /\ steps' = Append(steps, step)
    /\ thrown' = IF threw THEN thrown \cup {step.id} ELSE thrown
    /\ now' = now + StepMs

AssetGenerationStep ==
    /\ pc = "assets"
    /\ IF ~finalConfig.skipAssets
       THEN \E obs \in AssetObservations :
                PushStep(runAssetGeneration(obs, now, now + StepMs), obs.threw)
       ELSE UNCHANGED <<steps, thrown, now>>
    /\ pc' = "seo"
    /\ UNCHANGED <<config, result, startTime, scoreVars, launchVars, storeVars>>

SEOOptimizationStep ==
    /\ pc = "seo"
    /\ IF ~finalConfig.skipSEO
       THEN \E obs \in SEOObservations :
                PushStep(runSEOOptimization(obs, now, now + StepMs), FALSE)
       ELSE UNCHANGED <<steps, thrown, now>>
    /\ pc' = "performance"
    /\ UNCHANGED <<config, result, startTime, scoreVars, launchVars, storeVars>>

PerformanceOptimizationStep ==
    /\ pc = "performance"
    /\ IF ~finalConfig.skipPerf
       THEN \E obs \in PerfObservations :
                PushStep(runPerformanceOptimization(obs, now, now + StepMs), obs.threw)
       ELSE UNCHANGED <<steps, thrown, now>>
    /\ pc' = "launch-checklist"
    /\ UNCHANGED <<config, result, startTime, scoreVars, launchVars, storeVars>>

LaunchChecklistStep ==
    /\ pc = "launch-checklist"
    /\ \E threw \in BOOLEAN, c \in LaunchChecklists :
           PushStep(runLaunchChecklistValidation(threw, c, now, now + StepMs), threw)
    /\ pc' = "deployment"
    /\ UNCHANGED <<config, result, startTime, scoreVars, launchVars, storeVars>>

\* Step 5 and lines 138-162, up to the return
DeploymentStepAndReturn ==
    /\ pc = "deployment"
    /\ LET launchChecklist == steps[Len(steps)].result
       IN  IF ShouldDeploy(finalConfig, launchChecklist)
           THEN LET deployStep == runDeployment(now, now + StepMs)
                IN  /\ PushStep(deployStep, FALSE)
                    /\ result' = Some(WorkflowResult(steps', launchChecklist,
                                          Field(deployStep.result, "url"),
                                          startTime, now'))
           ELSE /\ result' = Some(WorkflowResult(steps, launchChecklist, NoValue,
                                      startTime, now))
                /\ UNCHANGED <<steps, thrown, now>>
    /\ pc' = "done"
    /\ UNCHANGED <<config, startTime, scoreVars, launchVars, storeVars>>

Next ==
    \/ AssetGenerationStep
    \/ SEOOptimizationStep
    \/ PerformanceOptimizationStep
    \/ LaunchChecklistStep
    \/ DeploymentStepAndReturn

Spec == Init /\ [][Next]_vars

----------------------------------------------------------------------------
(* SpecResumedRun: runCompleteWorkflow started in a project whose state file  *)
(* holds the state of an earlier, interrupted workflow.                       *)

\* the steps of a workflow in the order runCompleteWorkflow runs them
StepOrder == <<"assets", "seo", "performance", "launch-checklist", "deployment">>

TotalSteps == Len(StepOrder)

\* the steps the earlier workflow finished, each taking StepMs
PriorSteps ==
    << runAssetGeneration([threw |-> FALSE, totalImages |-> 1, optimized |-> 1],
                          0, StepMs),
       runSEOOptimization([framework |-> "next-app", sitemap |-> TRUE, robots |-> TRUE,
                           manifest |-> FALSE, layout |-> TRUE],
                          StepMs, 2 * StepMs),
       runPerformanceOptimization([threw |-> FALSE, imagesOptimized |-> 1,
                                   bytesSaved |-> 0],
                                  2 * StepMs, 3 * StepMs),
       runLaunchChecklistValidation(FALSE, [overallScore |-> 70, readyToLaunch |-> TRUE],
                                    3 * StepMs, 4 * StepMs),
       runDeployment(4 * StepMs, 5 * StepMs) >>

\* createWorkflowState, then updateWorkflowState after each of the first k steps
RECURSIVE PriorState(_)
PriorState(k) ==
    IF k = 0 THEN createWorkflowState(TotalSteps, 0)
    ELSE updateWorkflowState(PriorState(k - 1), PriorSteps[k], k * StepMs)

\* the time between the last update of the state file and the new run
ResumeDelays == {HourMs, DayMs}

ResumeConfigs == {cfg \in WorkflowConfigs : DOMAIN cfg \subseteq {"skipDeploy"}}

InitResumedRun ==
    /\ \E k \in 0..TotalSteps, delay \in ResumeDelays :
          /\ stateFile = saveWorkflowState(FALSE, PriorState(k)).file
          /\ now = PriorState(k).lastUpdate + delay
    /\ InitRun
    /\ config \in ResumeConfigs
    /\ stateDir = TRUE
    /\ history = NoValue
    /\ calls = NoCalls
    /\ ScoreIdle /\ LaunchIdle

SpecResumedRun == InitResumedRun /\ [][Next]_vars

----------------------------------------------------------------------------
(* SpecHistory: saveToHistory, loadHistory and exportWorkflowReport on one     *)
(* project, whose history file starts absent, empty, unparsable or holding    *)
(* something that is no list.  One caller saves runs one after the other, a   *)
(* second one reads the history and exports reports at any moment.            *)

\* most calls of saveToHistory in a behaviour
MaxAppends == 12

\* the results put into the history: a run of five steps and the same run
\* with the step of the launch checklist failed
HistoryResults ==
    LET failed == [PriorSteps EXCEPT ![4] =
                      runLaunchChecklistValidation(TRUE, NoValue, 3 * StepMs, 4 * StepMs)]
    IN  {WorkflowResult(PriorSteps, PriorSteps[4].result, Some(DeployUrl),
                        0, 5 * StepMs),
         WorkflowResult(SubSeq(failed, 1, 4), NoValue, NoValue, 0, 4 * StepMs)}

InitialHistories ==
    {<<FALSE, NoValue>>, <<TRUE, NoValue>>, <<TRUE, Some(Garbage)>>,
     <<TRUE, Some(JSONText("array", << >>))>>,
     <<TRUE, Some(JSONText("object-without-steps", << >>))>>,
     <<TRUE, Some(JSONText("null", << >>))>>}

InitHistory ==
    /\ \E h \in InitialHistories : stateDir = h[1] /\ history = h[2]
    /\ stateFile = NoValue
    /\ calls = NoCalls
    /\ now = 0
    /\ input = NoValue
    /\ output = NoValue
    /\ LaunchIdle
    /\ config = NoValue /\ pc = "idle" /\ steps = << >> /\ thrown = {}
    /\ result = NoValue /\ startTime = 0

\* the latest millisecond of the clock in a behaviour of the history
MaxClock == 1

\* a millisecond passes
Tick ==
    /\ now < MaxClock
    /\ now' = now + 1
    /\ UNCHANGED <<input, output, launchVars, config, pc, steps, thrown, result,
                   startTime, storeVars>>

Returned(call, threw, value) == [call |-> call, threw |-> threw, value |-> value]

\* ensureShipDirectory(projectRoot) of the configuration: mkdirSync of the
\* directory of the store when it is missing
EnsureShipDirectory ==
    /\ stateDir' = TRUE
    /\ output' = Some(Returned("ensureShipDirectory", FALSE, << >>))
    /\ UNCHANGED <<input, launchVars, flowVars, stateFile, history, calls>>

\* saveConfig(projectRoot, config), also through updateConfig and initConfig:
\* mkdirSync of the directory when it is missing; config.json is no file of
\* the store
SaveConfig ==
    /\ stateDir' = TRUE
    /\ output' = Some(Returned("saveConfig", FALSE, << >>))
    /\ UNCHANGED <<input, launchVars, flowVars, stateFile, history, calls>>

\* a step of a call on the history leaves the clock and the workflow alone;
\* output is what the step returned to a caller, NoValue when no call
\* returned in it
StoreStep == UNCHANGED <<input, launchVars, flowVars>>

\* call c moves to the stage, holding held, and the step is put into its log
Logged(c, stage, held, event) ==
    [calls EXCEPT ![c].stage = stage, ![c].held = held,
                  ![c].log = Append(@, <<event, Turn>>)]

\* call c has thrown
Throws(c) ==
    /\ calls' = [calls EXCEPT ![c].stage = "threw"]
    /\ output' = Some(Returned(calls[c].name, TRUE, << >>))

\* the runs caller c may save next: the run with a failed step is the first
\* run a caller saves
RunsToSave(c) ==
    IF calls[c].begun = 0
    THEN HistoryResults
    ELSE {r \in HistoryResults : r.overallSuccess}

\* saveToHistory(projectRoot, r) is called by c, who has begun fewer than most
\* calls: up to the first await.  Without a history file that is fs.writeFile
\* of the new entry alone, with one it is fs.readFile
BeginSaveToHistory(c, most) ==
    /\ Settled(c)
    /\ calls[c].begun < most
    /\ \E r \in RunsToSave(c) :
          calls' = [calls EXCEPT ![c] =
              IF history = NoValue
              THEN Call("saveToHistory", "open", <<r, NoValue, now>>,
                        <<<<"begin", Turn - Len(@.log)>>>>, @.begun + 1, @.returned)
              ELSE Call("saveToHistory", "read", <<r>>,
                        <<<<"begin", Turn - Len(@.log)>>>>, @.begun + 1, @.returned)]
    /\ output' = NoValue
    /\ UNCHANGED <<stateDir, stateFile, history>>
    /\ StoreStep

\* fs.readFile of call c runs: it reads the text the file holds now
ReadHistoryFile(c) ==
    /\ calls[c].name = "saveToHistory" /\ calls[c].stage = "read"
    /\ calls' = Logged(c, "continue", <<calls[c].held[1], history>>, "read")
    /\ output' = NoValue
    /\ UNCHANGED <<stateDir, stateFile, history>>
    /\ StoreStep

\* call c goes on after its read: JSON.parse, history.unshift of the entry
\* with timestamp new Date(), slice, and the call of fs.writeFile; unshift
\* throws when the parsed value is no list
ContinueSaveToHistory(c) ==
    /\ calls[c].name = "saveToHistory" /\ calls[c].stage = "continue"
    /\ IF ExistingHistory(calls[c].held[2]).shape # "array"
       THEN Throws(c)
       ELSE /\ calls' = [calls EXCEPT ![c].stage = "open",
                                      ![c].held = <<@[1], @[2], now>>]
            /\ output' = NoValue
    /\ UNCHANGED <<stateDir, stateFile, history>>
    /\ StoreStep

\* the text call c writes: the file of saveToHistory run on the text it read
HistoryText(c) ==
    saveToHistory(stateDir, calls[c].held[2], calls[c].held[1], calls[c].held[3])

\* fs.writeFile of call c opens the history file, which empties it; without
\* the directory it rejects with ENOENT
OpenHistoryFile(c) ==
    /\ calls[c].name = "saveToHistory" /\ calls[c].stage = "open"
    /\ IF HistoryText(c).threw
       THEN /\ calls' = [calls EXCEPT ![c].stage = "rejected"]
            /\ UNCHANGED history
       ELSE /\ history' = Some(Garbage)
            /\ calls' = [Opened(c) EXCEPT ![c].log = Append(@, <<"open", Turn>>)]
    /\ output' = NoValue
    /\ UNCHANGED <<stateDir, stateFile>>
    /\ StoreStep

\* fs.writeFile of call c has filled the file; the call has not gone on yet
WriteHistoryFile(c) ==
    /\ calls[c].name = "saveToHistory"
    /\ calls[c].stage \in {"writing", "mixed", "unlinked"}
    /\ history' \in WrittenTexts(c, HistoryText(c).file, history)
    /\ calls' = [calls EXCEPT ![c].stage = "written"]
    /\ output' = NoValue
    /\ UNCHANGED <<stateDir, stateFile>>
    /\ StoreStep

\* call c goes on after fs.writeFile: it returns, or throws what fs.writeFile
\* rejected with
FinishSaveToHistory(c) ==
    /\ calls[c].name = "saveToHistory"
    /\ calls[c].stage \in {"written", "rejected"}
    /\ IF calls[c].stage = "rejected"
       THEN Throws(c)
       ELSE /\ calls' = [calls EXCEPT ![c].stage = "returned",
                                      ![c].returned = @ + 1,
                                      ![c].log = Append(@, <<"returned", Turn>>)]
            /\ output' = Some(Returned("saveToHistory", FALSE, << >>))
    /\ UNCHANGED <<stateDir, stateFile, history>>
    /\ StoreStep

\* loadHistory(projectRoot) is called by c: existsSync, and without a history
\* file the call returns []
BeginLoadHistory(c) ==
    /\ Settled(c)
    /\ IF history = NoValue
       THEN /\ calls' = [calls EXCEPT ![c] =
                   Call("loadHistory", "returned", <<NoValue, loadHistory(NoValue)>>,
                        << >>, @.begun, @.returned)]
            /\ output' = Some(Returned("loadHistory", FALSE, loadHistory(NoValue)))
       ELSE /\ calls' = [calls EXCEPT ![c] =
                   Call("loadHistory", "read", NoValue, << >>, @.begun, @.returned)]
            /\ output' = NoValue
    /\ UNCHANGED <<stateDir, stateFile, history>>
    /\ StoreStep

\* fs.readFile of the loadHistory call c runs: it reads the text the file
\* holds now
ReadHistoryToLoad(c) ==
    /\ calls[c].name = "loadHistory" /\ calls[c].stage = "read"
    /\ calls' = [calls EXCEPT ![c].stage = "continue", ![c].held = <<history>>]
    /\ output' = NoValue
    /\ UNCHANGED <<stateDir, stateFile, history>>
    /\ StoreStep

\* call c goes on after its read and returns JSON.parse of the text, whatever
\* it parses to, and [] when it does not parse
FinishLoadHistory(c) ==
    /\ calls[c].name = "loadHistory" /\ calls[c].stage = "continue"
    /\ calls' = [calls EXCEPT ![c].stage = "returned",
                              ![c].held = <<@[1], loadHistory(@[1])>>]
    /\ output' = Some(Returned("loadHistory", FALSE, loadHistory(calls[c].held[1])))
    /\ UNCHANGED <<stateDir, stateFile, history>>
    /\ StoreStep

\* exportWorkflowReport(projectRoot, result, format) is called by c: up to the
\* first await, which is fs.mkdir without the directory and fs.writeFile of
\* the report with it; the report file is no file of the store
BeginExportWorkflowReport(c) ==
    /\ Settled(c)
    /\ calls' = [calls EXCEPT ![c] =
          Call("exportWorkflowReport", IF stateDir THEN "report" ELSE "mkdir",
               NoValue, << >>, @.begun, @.returned)]
    /\ output' = NoValue
    /\ UNCHANGED <<stateDir, stateFile, history>>
    /\ StoreStep

\* fs.mkdir of call c runs and the call goes on to fs.writeFile of the report
MakeReportDirectory(c) ==
    /\ calls[c].name = "exportWorkflowReport" /\ calls[c].stage = "mkdir"
    /\ stateDir' = TRUE
    /\ calls' = [calls EXCEPT ![c].stage = "report"]
    /\ output' = NoValue
    /\ UNCHANGED <<stateFile, history>>
    /\ StoreStep

\* fs.writeFile of the report has ended and call c returns the path
FinishExportWorkflowReport(c) ==
    /\ calls[c].name = "exportWorkflowReport" /\ calls[c].stage = "report"
    /\ calls' = [calls EXCEPT ![c].stage = "returned"]
    /\ output' = Some(Returned("exportWorkflowReport", FALSE, << >>))
    /\ UNCHANGED <<stateDir, stateFile, history>>
    /\ StoreStep

\* the steps of a saveToHistory call of caller c
SaveToHistory(c, most) ==
    \/ BeginSaveToHistory(c, most)
    \/ ReadHistoryFile(c)
    \/ ContinueSaveToHistory(c)
    \/ OpenHistoryFile(c)
    \/ WriteHistoryFile(c)
    \/ FinishSaveToHistory(c)

\* the steps of a loadHistory call of caller c
LoadHistory(c) ==
    \/ BeginLoadHistory(c)
    \/ ReadHistoryToLoad(c)
    \/ FinishLoadHistory(c)

\* the steps of an exportWorkflowReport call of caller c
ExportWorkflowReport(c) ==
    \/ BeginExportWorkflowReport(c)
    \/ MakeReportDirectory(c)
    \/ FinishExportWorkflowReport(c)

\* caller 1 saves runs, awaiting each call before the next one; caller 2
\* reads the history and exports reports meanwhile
NextHistory ==
    \/ SaveToHistory(1, MaxAppends)
    \/ LoadHistory(2)
    \/ ExportWorkflowReport(2)
    \/ EnsureShipDirectory
    \/ SaveConfig
    \/ Tick

SpecHistory == InitHistory /\ [][NextHistory]_vars

----------------------------------------------------------------------------
(* Properties of the workflow orchestrator *)

\* the configuration asks to skip the step of this key
Skips(key) == key \in DOMAIN config /\ config[key]

SkipKey(id) ==
    CASE id = "assets" -> "skipAssets"
      [] id = "seo" -> "skipSEO"
      [] id = "performance" -> "skipPerf"

StepNotSkipped(id) == ~Skips(SkipKey(id))

\* the caller asked for a deployment
WantsDeploy == "skipDeploy" \in DOMAIN config /\ ~config.skipDeploy

\* the launch-checklist step of stepList completed and reported readyToLaunch
ReportedReady(stepList) ==
    \E i \in DOMAIN stepList :
        /\ stepList[i].id = "launch-checklist"
        /\ stepList[i].status = "completed"
        /\ Len(stepList[i].result) = 1
        /\ stepList[i].result[1].readyToLaunch

\* the result holds exactly the steps of the configuration, in order, the
\* deployment among them when deployGate holds; a step whose work threw is
\* failed with the error text; a throw makes overallSuccess false
FailureTolerant(deployGate) ==
    LET r == result[1]
        ids == [i \in DOMAIN r.steps |-> r.steps[i].id]
        expected ==
            SelectSeq(<<"assets", "seo", "performance">>, StepNotSkipped)
            \o <<"launch-checklist">>
            \o (IF deployGate THEN <<"deployment">> ELSE << >>)
    IN  /\ ids = expected
        /\ \A i \in DOMAIN r.steps :
               r.steps[i].id \in thrown =>
                   /\ r.steps[i].status = "failed"
                   /\ r.steps[i].error = Some(ErrorText)
        /\ thrown # {} => ~r.overallSuccess

\* C5 as stated: a step whose work throws is recorded failed with the error text
\* and no later step is lost to the failure, a deployment the caller asked for
\* after a launch checklist that threw included; overallSuccess is then false.
C5_NoStepLostToFailure ==
    pc = "done" =>
        FailureTolerant(WantsDeploy /\ (ReportedReady(result[1].steps)
                                        \/ "launch-checklist" \in thrown))

\* C5: a step whose work throws is recorded failed with the error text, the run
\* goes on to every later step of its configuration and returns a result holding
\* all executed steps with overallSuccess false; the deployment step alone depends
\* on an earlier step, running only after a checklist that completed ready.
C5_FailureTolerance ==
    pc = "done" => FailureTolerant(WantsDeploy /\ ReportedReady(result[1].steps))

\* five steps were executed, the third threw, the fourth and fifth still ran
C5_Witness ==
    /\ pc = "done"
    /\ thrown = {"performance"}
    /\ Len(result[1].steps) = 5
    /\ result[1].steps[3].status = "failed"
    /\ result[1].steps[4].status = "completed"
    /\ result[1].steps[5].id = "deployment"
    /\ ~result[1].overallSuccess

\* C6: overallSuccess is true exactly when no step of the result is pending,
\* running or failed, that is when all are completed or skipped; a failed step
\* makes it false.
C6_OverallSuccess ==
    pc = "done" =>
        LET r == result[1]
            status == {r.steps[i].status : i \in DOMAIN r.steps}
        IN  /\ r.overallSuccess <=> status \subseteq {"completed", "skipped"}
            /\ "failed" \in status => ~r.overallSuccess

\* a run of completed and skipped steps succeeded
C6_Witness ==
    /\ pc = "done"
    /\ {result[1].steps[i].status : i \in DOMAIN result[1].steps}
           = {"completed", "skipped"}
    /\ result[1].overallSuccess

\* C7: the deployment step is executed only when the caller set skipDeploy to
\* false and the launch-checklist step of the run completed with readyToLaunch;
\* never under the default configuration, after a failed or a not ready checklist.
C7_DeployGate ==
    "deployment" \in StepIds(steps) => WantsDeploy /\ ReportedReady(steps)

\* a deployment step was executed
C7_Witness ==
    /\ pc = "done"
    /\ "deployment" \in StepIds(steps)
    /\ Len(result[1].deploymentUrl) = 1

\* C8: canResumeWorkflow is true exactly for a state in progress, with
\* currentStep < totalSteps, last updated less than 24 hours ago; a state last
\* updated 24 hours ago or more (25 hours, say) cannot be resumed.
C8_CanResume ==
    Len(output) = 1 =>
        LET state == input.state
            age == input.now - state.lastUpdate
        IN  /\ output[1].canResume <=>
                   /\ state.status = "in-progress"
                   /\ state.currentStep < state.totalSteps
                   /\ age < 24 * HourMs
            /\ age >= 24 * HourMs => ~output[1].canResume

\* a state updated one millisecond less than 24 hours ago can be resumed
C8_Witness ==
    /\ Len(output) = 1
    /\ input.now - input.state.lastUpdate = 24 * HourMs - 1
    /\ output[1].canResume

\* C9: a run started on a persisted state that can be resumed, with currentStep
\* = k, executes none of the steps 0..k-1 of that state again.
C9_ResumeLaw ==
    LET persisted == loadWorkflowState(stateFile).value
    IN  (Len(persisted) = 1 /\ canResumeWorkflow(persisted[1], startTime)) =>
            \A i \in 1..getNextStep(persisted[1]) :
                persisted[1].steps[i].id \notin StepIds(steps)

\* C10: once a step of the run has ended, the state file holds a state whose
\* steps include that step with its status; once the run has returned, the
\* history holds one entry.
C10_StatePersisted ==
    /\ steps # << >> =>
           LET persisted == loadWorkflowState(stateFile).value
           IN  /\ Len(persisted) = 1
               /\ \E i \in DOMAIN persisted[1].steps :
                      /\ persisted[1].steps[i].id = steps[Len(steps)].id
                      /\ persisted[1].steps[i].status = steps[Len(steps)].status
    /\ pc = "done" => Len(history) = 1 /\ Len(loadHistory(history).value) = 1

----------------------------------------------------------------------------
(* SpecStore: saveWorkflowState, loadWorkflowState, clearWorkflowState and    *)
(* exportWorkflowReport on one project, by two callers that share the         *)
(* WorkflowState held in input and do not await one another.                  *)

\* the steps of a workflow as the step functions return them: the result of
\* the launch-checklist step is the LaunchChecklist, which holds its timestamp
StoredSteps ==
    [PriorSteps EXCEPT ![4] =
        runLaunchChecklistValidation(FALSE,
            [overallScore |-> 70, readyToLaunch |-> TRUE,
             timestamp |-> DateObject(4 * StepMs)],
            3 * StepMs, 4 * StepMs)]

\* the step of index k as its step function returns it: completed (or
\* skipped), the first step also failed
StepOutcomes(k) ==
    {StoredSteps[k]} \cup
        IF k = 1
        THEN {Stamp(CatchError(NewStep(StepOrder[k], (k - 1) * StepMs), ErrorText),
                    k * StepMs)}
        ELSE {}

\* the totalSteps a caller passes to createWorkflowState
StoreTotals == {0, TotalSteps}

\* the directory and the state file before the first call
InitialStateFiles ==
    {<<FALSE, NoValue>>, <<TRUE, NoValue>>, <<TRUE, Some(Garbage)>>,
     <<TRUE, Some(JSONText("null", << >>))>>,
     <<TRUE, Some(JSONText("number", << >>))>>,
     <<TRUE, Some(JSONText("array", << >>))>>,
     <<TRUE, Some(JSONText("object-without-steps", [id |-> "workflow"]))>>,
     <<TRUE, Some(JSONText("object", [steps |-> << >>]))>>,
     <<TRUE, Some(JSONText("object", [steps |-> <<JSONNull>>]))>>,
     <<TRUE, Some(JSONText("object", [steps |-> <<JSONNumber>>]))>>}

InitStore ==
    /\ \E f \in InitialStateFiles : stateDir = f[1] /\ stateFile = f[2]
    /\ history = NoValue
    /\ calls = NoCalls
    /\ input = NoValue
    /\ output = NoValue
    /\ LaunchIdle /\ FlowIdle

\* state = createWorkflowState(projectRoot, totalSteps, config)
CreateWorkflowState ==
    /\ input = NoValue
    /\ \E totalSteps \in StoreTotals :
          input' = Some(createWorkflowState(totalSteps, now))
    /\ output' = Some(Returned("createWorkflowState", FALSE, << >>))
    /\ UNCHANGED <<launchVars, flowVars, storeVars>>

\* state = updateWorkflowState(state, step), step being the next step of the
\* workflow, StepMs after the last update
UpdateWorkflowState ==
    /\ Len(input) = 1
    /\ Len(input[1].steps) < TotalSteps
    /\ \E step \in StepOutcomes(Len(input[1].steps) + 1) :
          input' = Some(updateWorkflowState(input[1], step, now + StepMs))
    /\ now' = now + StepMs
    /\ output' = Some(Returned("updateWorkflowState", FALSE, << >>))
    /\ UNCHANGED <<launchVars, config, pc, steps, thrown, result, startTime, storeVars>>

\* the steps of a call of the state file leave everything but the store alone
StateFileStep == UNCHANGED <<input, history, launchVars, flowVars>>

\* saveWorkflowState(projectRoot, state) is called by c: up to the first
\* await, which is fs.mkdir without the directory and fs.writeFile of
\* JSON.stringify(state) with it
BeginSaveWorkflowState(c) ==
    /\ Len(input) = 1
    /\ Settled(c)
    /\ calls' = [calls EXCEPT ![c] =
          IF stateDir
          THEN Call("saveWorkflowState", "open",
                    saveWorkflowState(stateDir, input[1]).file,
                    << >>, @.begun, @.returned)
          ELSE Call("saveWorkflowState", "mkdir", NoValue, << >>, @.begun, @.returned)]
    /\ output' = NoValue
    /\ UNCHANGED <<stateDir, stateFile>>
    /\ StateFileStep

\* fs.mkdir of call c runs; the call has not gone on yet
MakeStateDirectory(c) ==
    /\ calls[c].name = "saveWorkflowState" /\ calls[c].stage = "mkdir"
    /\ stateDir' = saveWorkflowState(stateDir, input[1]).dir
    /\ calls' = [calls EXCEPT ![c].stage = "made"]
    /\ output' = NoValue
    /\ UNCHANGED stateFile
    /\ StateFileStep

\* call c goes on after fs.mkdir: JSON.stringify of the state, which is the
\* object the caller passed as it is now, and the call of fs.writeFile
ContinueSaveWorkflowState(c) ==
    /\ calls[c].name = "saveWorkflowState" /\ calls[c].stage = "made"
    /\ calls' = [calls EXCEPT ![c].stage = "open",
                              ![c].held = saveWorkflowState(stateDir, input[1]).file]
    /\ output' = NoValue
    /\ UNCHANGED <<stateDir, stateFile>>
    /\ StateFileStep

\* fs.writeFile of call c opens the state file, which empties it
OpenStateFile(c) ==
    /\ calls[c].name = "saveWorkflowState" /\ calls[c].stage = "open"
    /\ stateFile' = Some(Garbage)
    /\ calls' = Opened(c)
    /\ output' = NoValue
    /\ UNCHANGED stateDir
    /\ StateFileStep

\* fs.writeFile of call c has filled the file; the call has not gone on yet
WriteStateFile(c) ==
    /\ calls[c].name = "saveWorkflowState"
    /\ calls[c].stage \in {"writing", "mixed", "unlinked"}
    /\ stateFile' \in WrittenTexts(c, calls[c].held, stateFile)
    /\ calls' = [calls EXCEPT ![c].stage = "written", ![c].held = NoValue]
    /\ output' = NoValue
    /\ UNCHANGED stateDir
    /\ StateFileStep

\* call c goes on after fs.writeFile and returns
FinishSaveWorkflowState(c) ==
    /\ calls[c].name = "saveWorkflowState" /\ calls[c].stage = "written"
    /\ calls' = [calls EXCEPT ![c].stage = "returned"]
    /\ output' = Some(Returned("saveWorkflowState", FALSE, << >>))
    /\ UNCHANGED <<stateDir, stateFile>>
    /\ StateFileStep

\* loadWorkflowState(projectRoot) is called by c: existsSync, and without a
\* state file the call returns null
BeginLoadWorkflowState(c) ==
    /\ Settled(c)
    /\ IF stateFile = NoValue
       THEN /\ calls' = [calls EXCEPT ![c] =
                   Call("loadWorkflowState", "returned",
                        <<NoValue, loadWorkflowState(NoValue)>>,
                        << >>, @.begun, @.returned)]
            /\ output' = Some(Returned("loadWorkflowState", FALSE, NoValue))
       ELSE /\ calls' = [calls EXCEPT ![c] =
                   Call("loadWorkflowState", "read", NoValue, << >>,
                        @.begun, @.returned)]
            /\ output' = NoValue
    /\ UNCHANGED <<stateDir, stateFile>>
    /\ StateFileStep

\* fs.readFile of call c runs: it reads the text the file holds now, and
\* rejects when the file is gone
ReadStateFile(c) ==
    /\ calls[c].name = "loadWorkflowState" /\ calls[c].stage = "read"
    /\ calls' = [calls EXCEPT ![c].stage = "continue", ![c].held = <<stateFile>>]
    /\ output' = NoValue
    /\ UNCHANGED <<stateDir, stateFile>>
    /\ StateFileStep

\* call c goes on after its read: JSON.parse, the dates, and the return; what
\* fs.readFile rejected with is caught like the rest
FinishLoadWorkflowState(c) ==
    /\ calls[c].name = "loadWorkflowState" /\ calls[c].stage = "continue"
    /\ LET o == loadWorkflowState(calls[c].held[1])
       IN  /\ calls' = [calls EXCEPT ![c].stage = IF o.threw THEN "threw" ELSE "returned",
                                     ![c].held = <<@[1], o>>]
           /\ output' = Some(Returned("loadWorkflowState", o.threw, o.value))
    /\ UNCHANGED <<stateDir, stateFile>>
    /\ StateFileStep

\* clearWorkflowState(projectRoot) is called by c: existsSync, and without a
\* state file the call returns
BeginClearWorkflowState(c) ==
    /\ Settled(c)
    /\ IF stateFile = NoValue
       THEN /\ calls' = [calls EXCEPT ![c] =
                   Call("clearWorkflowState", "returned", NoValue, << >>,
                        @.begun, @.returned)]
            /\ output' = Some(Returned("clearWorkflowState", FALSE, << >>))
       ELSE /\ calls' = [calls EXCEPT ![c] =
                   Call("clearWorkflowState", "unlink", NoValue, << >>,
                        @.begun, @.returned)]
            /\ output' = NoValue
    /\ UNCHANGED <<stateDir, stateFile>>
    /\ StateFileStep

\* fs.unlink of call c runs: it rejects with ENOENT when the file is gone by
\* now; a write under way goes to the file that was unlinked
UnlinkStateFile(c) ==
    /\ calls[c].name = "clearWorkflowState" /\ calls[c].stage = "unlink"
    /\ IF stateFile = NoValue
       THEN /\ calls' = [calls EXCEPT ![c].stage = "rejected"]
            /\ UNCHANGED stateFile
       ELSE /\ stateFile' = clearWorkflowState(stateFile)
            /\ calls' = [d \in Callers |->
                  IF d = c THEN [calls[c] EXCEPT !.stage = "removed"]
                  ELSE IF Writing(d, "saveWorkflowState")
                       THEN [calls[d] EXCEPT !.stage = "unlinked"]
                       ELSE calls[d]]
    /\ output' = NoValue
    /\ UNCHANGED stateDir
    /\ StateFileStep

\* call c goes on after fs.unlink: it returns, or throws what fs.unlink
\* rejected with
FinishClearWorkflowState(c) ==
    /\ calls[c].name = "clearWorkflowState"
    /\ calls[c].stage \in {"removed", "rejected"}
    /\ IF calls[c].stage = "rejected"
       THEN Throws(c)
       ELSE /\ calls' = [calls EXCEPT ![c].stage = "returned"]
            /\ output' = Some(Returned("clearWorkflowState", FALSE, << >>))
    /\ UNCHANGED <<stateDir, stateFile>>
    /\ StateFileStep

\* the steps of a saveWorkflowState call of caller c
SaveWorkflowState(c) ==
    \/ BeginSaveWorkflowState(c)
    \/ MakeStateDirectory(c)
    \/ ContinueSaveWorkflowState(c)
    \/ OpenStateFile(c)
    \/ WriteStateFile(c)
    \/ FinishSaveWorkflowState(c)

\* the steps of a loadWorkflowState call of caller c
LoadWorkflowState(c) ==
    \/ BeginLoadWorkflowState(c)
    \/ ReadStateFile(c)
    \/ FinishLoadWorkflowState(c)

\* the steps of a clearWorkflowState call of caller c
ClearWorkflowState(c) ==
    \/ BeginClearWorkflowState(c)
    \/ UnlinkStateFile(c)
    \/ FinishClearWorkflowState(c)

NextStore ==
    \/ CreateWorkflowState
    \/ UpdateWorkflowState
    \/ \E c \in Callers : SaveWorkflowState(c)
    \/ \E c \in Callers : LoadWorkflowState(c)
    \/ \E c \in Callers : ClearWorkflowState(c)
    \/ \E c \in Callers : ExportWorkflowReport(c)
    \/ EnsureShipDirectory
    \/ SaveConfig

SpecStore == InitStore /\ [][NextStore]_vars

----------------------------------------------------------------------------
(* SpecValidate: validateScore (part_010 253-267) on bounded inputs.  A        *)
(* JavaScript value is kept with its typeof; a number is NaN, an infinity or  *)
(* the fraction num / den.                                                    *)

\* how far beyond the range 0..100 the scores tried reach
ScoreOvershoot == 2

JSValue(type, class, num, den) ==
    [type |-> type, class |-> class, num |-> num, den |-> den]

ScoreInputs ==
    {JSValue("number", "finite", num, den) :
        num \in (0 - ScoreOvershoot * 10)..((100 + ScoreOvershoot) * 10), den \in {10}}
    \cup {JSValue("number", "finite", num, den) :
        num \in (0 - ScoreOvershoot * 2)..((100 + ScoreOvershoot) * 2), den \in {1, 2}}
    \cup {JSValue("number", c, 0, 1) : c \in {"NaN", "Infinity", "-Infinity"}}
    \cup {JSValue(t, "none", 85, 1) : t \in {"string", "undefined", "object"}}

\* score < 0 || score > 100, of a number that is not NaN
OutOfRange(score) ==
    \/ score.class = "-Infinity"
    \/ score.class = "Infinity"
    \/ score.class = "finite" /\ (score.num < 0 \/ score.num > 100 * score.den)

Verdict(valid, error, normalized) ==
    [valid |-> valid, error |-> error, normalized |-> normalized]

\* the upper bound of the range is left out
validateScore_Exclusive(score) ==
    IF score.type # "number"
    THEN Verdict(FALSE, Some("Score must be a number"), NoValue)
    ELSE IF score.class = "NaN"
    THEN Verdict(FALSE, Some("Score cannot be NaN"), NoValue)
    ELSE IF OutOfRange(score) \/ score.num = 100 * score.den
    THEN Verdict(FALSE, Some("Score must be between 0 and 100"), NoValue)
    ELSE Verdict(TRUE, NoValue, Some(MathRound(score.num, score.den)))

validateScore(score) ==
    IF score.type # "number"
    THEN Verdict(FALSE, Some("Score must be a number"), NoValue)
    ELSE IF score.class = "NaN"
    THEN Verdict(FALSE, Some("Score cannot be NaN"), NoValue)
    ELSE IF OutOfRange(score)
    THEN Verdict(FALSE, Some("Score must be between 0 and 100"), NoValue)
    ELSE Verdict(TRUE, NoValue, Some(MathRound(score.num, score.den)))

InitValidate ==
    /\ input \in ScoreInputs
    /\ output = NoValue
    /\ LaunchIdle /\ FlowIdle /\ StoreIdle

ValidateScore ==
    /\ output = NoValue
    /\ output' = Some(validateScore(input))
    /\ UNCHANGED <<input, launchVars, flowVars, storeVars>>

NextValidate == ValidateScore

SpecValidate == InitValidate /\ [][NextValidate]_vars

----------------------------------------------------------------------------
(* SpecDetect: detectFramework (part_010 541-711) on bounded projects.        *)
(* confidence is kept in hundredths.                                          *)

DependencyNames == {"next", "vite", "react", "react-scripts", "vue", "@sveltejs/kit", "astro"}

\* package.json: absent, no JSON, the JSON text null, or an object whose
\* dependencies and devDependencies together are deps
PackageJsonKinds == {"missing", "invalid", "null", "object"}

\* the vite config file of a project: none, vite.config.ts (or .js, which
\* every check treats alike) or vite.config.mjs alone
ViteConfigFiles == {"none", "vite.config.ts", "vite.config.mjs"}

Projects ==
    [packageJson : PackageJsonKinds, deps : SUBSET DependencyNames,
     app : BOOLEAN, pages : BOOLEAN, indexHtml : BOOLEAN,
     viteConfig : ViteConfigFiles, astroConfig : BOOLEAN]

Detection(name, hasAppDir, hasPagesDir, confidence) ==
    [framework |-> name, hasAppDir |-> hasAppDir, hasPagesDir |-> hasPagesDir,
     confidence |-> confidence]

\* the if / else if chain of lines 579-706 on a parsed package.json
DetectFromDeps(project, default) ==
    LET deps == project.deps
    IN  IF "next" \in deps
        THEN Detection(IF project.app THEN "next-app" ELSE "next-pages",
                       project.app, project.pages,
                       IF ~project.app /\ ~project.pages THEN 60 ELSE 90)
        ELSE IF "vite" \in deps /\ "react" \in deps
        THEN Detection("react-vite", FALSE, FALSE,
                       IF project.viteConfig \in {"vite.config.ts", "vite.config.mjs"}
                       THEN 95 ELSE 85)
        ELSE IF "react-scripts" \in deps
        THEN Detection("react-cra", FALSE, FALSE, 95)
        ELSE IF "vue" \in deps
        THEN Detection("vue", FALSE, FALSE,
                       IF project.viteConfig \in {"vite.config.ts"} THEN 90 ELSE 75)
        ELSE IF "@sveltejs/kit" \in deps
        THEN Detection("svelte", FALSE, FALSE, 95)
        ELSE IF "astro" \in deps
        THEN Detection("astro", FALSE, FALSE, IF project.astroConfig THEN 95 ELSE 85)
        ELSE IF "react" \in deps
        THEN Detection("unknown", FALSE, FALSE, 50)
        ELSE default

\* detectFramework(projectRoot): nothing leaves it as an exception
detectFramework(project) ==
    LET default == Detection("static-html", FALSE, FALSE, 50)
    IN  CASE project.packageJson = "missing" ->
                 [default EXCEPT !.confidence = IF project.indexHtml THEN 70 ELSE 50]
          [] project.packageJson = "invalid" -> [default EXCEPT !.confidence = 30]
          [] project.packageJson = "null" -> default
          [] project.packageJson = "object" -> DetectFromDeps(project, default)

InitDetect ==
    /\ input \in Projects
    /\ output = NoValue
    /\ LaunchIdle /\ FlowIdle /\ StoreIdle

DetectFramework ==
    /\ output = NoValue
    /\ output' = Some(Returned("detectFramework", FALSE, detectFramework(input)))
    /\ UNCHANGED <<input, launchVars, flowVars, storeVars>>

NextDetect == DetectFramework

SpecDetect == InitDetect /\ [][NextDetect]_vars

----------------------------------------------------------------------------
(* SpecUpdate: any sequence of updateWorkflowState calls on the state that    *)
(* createWorkflowState returned.  input holds the state, output the last call *)
(* with the step that was passed.                                             *)

\* most totalSteps of a workflow state
MaxTotalSteps == 2

\* most calls of updateWorkflowState in a behaviour
MaxUpdates == 5

StepStatus == {"pending", "running", "completed", "failed", "skipped"}

\* the ids of the steps passed: one more than the largest totalSteps
UpdateIds == {StepOrder[i] : i \in 1..(MaxTotalSteps + 1)}

\* a step as a caller passes it to updateWorkflowState
StepWithStatus(id, status) == [NewStep(id, 0) EXCEPT !.status = status]

InitUpdate ==
    /\ \E totalSteps \in 1..MaxTotalSteps :
          input = Some(createWorkflowState(totalSteps, 0))
    /\ output = NoValue
    /\ LaunchIdle /\ FlowIdle /\ StoreIdle

\* state = updateWorkflowState(state, step), StepMs after the last call
UpdateAnyStep ==
    /\ now < MaxUpdates * StepMs
    /\ \E id \in UpdateIds, status \in StepStatus :
          LET step == StepWithStatus(id, status)
          IN  /\ input' = Some(updateWorkflowState(input[1], step, now + StepMs))
              /\ output' = Some(Returned("updateWorkflowState", FALSE, step))
    /\ now' = now + StepMs
    /\ UNCHANGED <<launchVars, config, pc, steps, thrown, result, startTime, storeVars>>

NextUpdate == UpdateAnyStep

SpecUpdate == InitUpdate /\ [][NextUpdate]_vars

----------------------------------------------------------------------------
(* SpecConcurrentSave: two callers call saveToHistory once each on one        *)
(* project, neither awaiting the other; the steps of the two calls interleave *)
(* freely, within one millisecond or across two.                              *)

\* a history file that already holds HistoryLimit entries, of runs of
\* different durations
FullHistory ==
    LET run == CHOOSE r \in HistoryResults : r.overallSuccess
    IN  [i \in 1..HistoryLimit |->
            HistoryEntry([run EXCEPT !.totalDuration = HistoryLimit - i], 0)]

ConcurrentHistories ==
    InitialHistories \cup
        {<<TRUE, Some(JSONText("array", SubSeq(FullHistory, HistoryLimit, HistoryLimit)))>>,
         <<TRUE, Some(JSONText("array", FullHistory))>>}

InitConcurrentSave ==
    /\ \E h \in ConcurrentHistories : stateDir = h[1] /\ history = h[2]
    /\ stateFile = NoValue
    /\ calls = NoCalls
    /\ now = 0
    /\ input = NoValue
    /\ output = NoValue
    /\ LaunchIdle
    /\ config = NoValue /\ pc = "idle" /\ steps = << >> /\ thrown = {}
    /\ result = NoValue /\ startTime = 0

NextConcurrentSave ==
    \/ \E c \in Callers : SaveToHistory(c, 1)
    \/ EnsureShipDirectory
    \/ SaveConfig
    \/ Tick

SpecConcurrentSave == InitConcurrentSave /\ [][NextConcurrentSave]_vars

----------------------------------------------------------------------------
(* Properties of the workflow state store *)

\* the entries of the history file, when it holds a list
HistoryEntries == history[1].value

HoldsList(file) == Len(file) = 1 /\ file[1].shape = "array"

\* the entry that the saveToHistory call of caller c puts into the history
EntryOf(c) == HistoryEntry(calls[c].held[1], calls[c].held[3])

\* C11: a history that started empty holds, after n calls of saveToHistory
\* that were awaited one after the other, min(n, 10) entries, newest first;
\* each call puts its entry first and keeps the older ones in their order, so
\* the 11th call drops exactly the oldest.
C11_HistoryBound ==
    /\ []((HoldsList(history) /\ Settled(1)) =>
            /\ Len(HistoryEntries) =
                   (IF calls[1].returned < HistoryLimit
                    THEN calls[1].returned ELSE HistoryLimit)
            /\ \A i, j \in DOMAIN HistoryEntries :
                   i < j => HistoryEntries[i].timestamp.iso >= HistoryEntries[j].timestamp.iso)
    /\ [][calls'[1].returned = calls[1].returned + 1 =>
            LET old == ExistingHistory(calls[1].held[2]).value
                new == history'[1].value
            IN  /\ HoldsList(history')
                /\ new[1] = EntryOf(1)
                /\ Len(new) = (IF Len(old) < HistoryLimit
                               THEN Len(old) + 1 ELSE HistoryLimit)
                /\ \A i \in 2..Len(new) : new[i] = old[i - 1]]_vars

\* eleven runs were saved: ten are kept, the last one first
C11_Witness ==
    /\ HoldsList(history)
    /\ calls[1].stage = "returned"
    /\ calls[1].returned = HistoryLimit + 1
    /\ Len(HistoryEntries) = HistoryLimit
    /\ HistoryEntries[1] = EntryOf(1)

\* C12: saveToHistory does not throw, and the first call on a project whose
\* history is absent (with or without the directory), unparsable or no list
\* leaves a history holding exactly the new entry.
C12_HistoryNeverThrows ==
    (Len(output) = 1 /\ output[1].call = "saveToHistory") =>
        /\ ~output[1].threw
        /\ calls[1].begun = 1 => HoldsList(history) /\ Len(HistoryEntries) = 1

\* the state file holds valid JSON of the structure of a WorkflowState
HoldsState(file) ==
    /\ Len(file) = 1
    /\ file[1].shape = "object"
    /\ {"id", "status", "currentStep", "totalSteps", "steps", "startTime", "lastUpdate"}
           \subseteq DOMAIN file[1].value

\* the loadWorkflowState call of caller c has ended
Loaded(c) ==
    calls[c].name = "loadWorkflowState" /\ calls[c].stage \in {"returned", "threw"}

\* the state file as that call found it, and what the call made of it
FileLoaded(c) == calls[c].held[1]
StateLoaded(c) == calls[c].held[2]

HoldsSaved(file) ==
    /\ Len(input) = 1
    /\ HoldsState(file)
    /\ file = saveWorkflowState(stateDir, input[1]).file

\* C14: loadWorkflowState returns a state equal to the state last saved, every
\* field of it and every step with its dates, and null once the file is cleared.
C14_RoundTrip ==
    \A c \in Callers : Loaded(c) =>
        /\ HoldsSaved(FileLoaded(c)) => StateLoaded(c).value = input
        /\ FileLoaded(c) = NoValue => StateLoaded(c).value = NoValue

----------------------------------------------------------------------------
(* Properties of the error policies *)

\* C15: no error of a check provider leaves runLaunchChecklist as an exception:
\* the call ends with a checklist, in which every section of the eight is present.
C15_ProviderErrorCaught ==
    /\ lpc # "thrown"
    /\ lpc = "done" => Len(checklist[1].sections) = 8

\* C16: the state a caller gets from createWorkflowState or updateWorkflowState
\* never has totalSteps = 0, and no workflow of zero steps is marked completed.
C16_ZeroStepsRejected ==
    Len(input) = 1 =>
        /\ input[1].totalSteps # 0
        /\ ~(input[1].totalSteps = 0 /\ input[1].status = "completed")

\* C17: in a checklist that is ready to launch every required item has status pass.
C17_RequiredItemsPass ==
    (lpc = "done" /\ checklist[1].readyToLaunch) =>
        \A i \in DOMAIN checklist[1].sections :
            \A j \in DOMAIN checklist[1].sections[i].items :
                checklist[1].sections[i].items[j].required =>
                    checklist[1].sections[i].items[j].status = "pass"

\* C18: the result of a run whose deployment was not asked for, or whose
\* checklist was not ready, holds a deployment step with status skipped; with
\* no skip flag for assets, SEO and performance it holds five steps.
C18_DeploymentRecordedSkipped ==
    (pc = "done" /\ ~(WantsDeploy /\ ReportedReady(result[1].steps))) =>
        /\ \E i \in DOMAIN result[1].steps :
               /\ result[1].steps[i].id = "deployment"
               /\ result[1].steps[i].status = "skipped"
        /\ (~Skips("skipAssets") /\ ~Skips("skipSEO") /\ ~Skips("skipPerf")) =>
               Len(result[1].steps) = 5

----------------------------------------------------------------------------
(* Properties of the validators *)

\* C19: validateScore accepts exactly the numbers that are not NaN and lie in
\* 0..100, both ends included, and then gives the nearest integer as normalized
\* (85.7 gives 86); any other input is invalid, with an error and no normalized.
C19_ValidateScore ==
    Len(output) = 1 =>
        LET inRange ==
                /\ input.type = "number"
                /\ input.class = "finite"
                /\ 0 <= input.num
                /\ input.num <= 100 * input.den
        IN  /\ output[1].valid <=> inRange
            /\ inRange =>
                   /\ Len(output[1].normalized) = 1
                   /\ IsNearest(output[1].normalized[1], input.num, input.den)
                   /\ Len(output[1].error) = 0
            /\ ~inRange =>
                   /\ Len(output[1].error) = 1
                   /\ Len(output[1].normalized) = 0
            /\ (inRange /\ input.num = 857 /\ input.den = 10) =>
                   output[1].normalized = Some(86)

\* 85.7 was validated and normalized to 86
C19_Witness ==
    /\ Len(output) = 1
    /\ input = JSValue("number", "finite", 857, 10)
    /\ output[1].valid
    /\ output[1].normalized = Some(86)

\* C20: on a project without package.json, or with a package.json that is no
\* valid JSON, detectFramework does not throw and reports the framework 'static'.
C20_MissingPackageJsonStatic ==
    (Len(output) = 1 /\ input.packageJson \in {"missing", "invalid"}) =>
        /\ ~output[1].threw
        /\ output[1].value.framework = "static"

----------------------------------------------------------------------------
(* Properties of updateWorkflowState over any sequence of calls *)

\* the steps of a list that are completed, failed or skipped
TerminalSteps(stepList) == SelectSeq(stepList, LAMBDA s : s.status \in TerminalStatus)

\* the step that the last updateWorkflowState call was given
PassedStep == output[1].value

\* C21: after every updateWorkflowState call, currentStep is the number of
\* steps of state.steps that are completed, failed or skipped, whatever the
\* status of the step that was passed.
C21_CurrentStepCountsTerminal ==
    output # NoValue =>
        input[1].currentStep = Len(TerminalSteps(input[1].steps))

\* C22: updateWorkflowState upserts by id: a step whose id is already listed
\* replaces the listed step at its position and the length is unchanged, any
\* other step is appended at the end; so no two steps of state.steps share an
\* id and the ids stay in the order of their first insertion.
C22_UpsertById ==
    /\ [](\A i, j \in DOMAIN input[1].steps :
              input[1].steps[i].id = input[1].steps[j].id => i = j)
    /\ [][UpdateAnyStep =>
            LET old == input[1].steps
                new == input'[1].steps
                step == output'[1].value
            IN  IF step.id \in {old[i].id : i \in DOMAIN old}
                THEN /\ Len(new) = Len(old)
                     /\ StepIds(new) = StepIds(old)
                     /\ \A i \in DOMAIN old :
                            new[i] = IF old[i].id = step.id THEN step ELSE old[i]
                ELSE /\ Len(new) = Len(old) + 1
                     /\ new[Len(new)] = step
                     /\ \A i \in DOMAIN old : new[i] = old[i]]_vars

\* the first of several listed steps has just been replaced in place
C22_Witness ==
    /\ output # NoValue
    /\ Len(input[1].steps) >= 2
    /\ input[1].steps[1] = PassedStep
    /\ now > Len(input[1].steps) * StepMs

\* C23: after an updateWorkflowState call that brings currentStep to
\* totalSteps the status is failed if some step of state.steps is failed and
\* completed otherwise; after a call that leaves currentStep below totalSteps
\* the status is in-progress.
C23_StatusFollowsCurrentStep ==
    output # NoValue =>
        LET state == input[1]
        IN  IF state.currentStep >= state.totalSteps
            THEN state.status =
                     IF \E i \in DOMAIN state.steps : state.steps[i].status = "failed"
                     THEN "failed" ELSE "completed"
            ELSE state.status = "in-progress"

\* C26: terminal step states are final: once state.steps holds a completed,
\* failed or skipped step, no later updateWorkflowState call changes the status
\* of that step.
C26_TerminalIsFinal ==
    [][\A i \in DOMAIN input[1].steps :
           input[1].steps[i].status \in TerminalStatus =>
               /\ i \in DOMAIN input'[1].steps
               /\ input'[1].steps[i].id = input[1].steps[i].id
               /\ input'[1].steps[i].status = input[1].steps[i].status]_vars

\* C29: in every state reached from createWorkflowState with totalSteps >= 1,
\* status completed implies that at least totalSteps steps are terminal and
\* none of them is failed, and status failed implies that some step is failed.
C29_StatusMatchesSteps ==
    LET state == input[1]
        terminal == TerminalSteps(state.steps)
        failed == SelectSeq(state.steps, LAMBDA s : s.status = "failed")
    IN  state.totalSteps >= 1 =>
            /\ state.status = "completed" =>
                   /\ Len(terminal) >= state.totalSteps
                   /\ Len(failed) = 0
            /\ state.status = "failed" => Len(failed) >= 1

----------------------------------------------------------------------------
(* Properties of the steps of runCompleteWorkflow *)

\* the place of a step id in the fixed order of the workflow
OrderOf(id) == CHOOSE k \in DOMAIN StepOrder : StepOrder[k] = id

\* the steps are terminal, in the fixed order, and each starts at or after the
\* end of the one before it
OneAtATimeInOrder(stepList) ==
    /\ \A i \in DOMAIN stepList :
           /\ stepList[i].id \in {StepOrder[k] : k \in DOMAIN StepOrder}
           /\ stepList[i].status \in TerminalStatus
    /\ \A i, j \in DOMAIN stepList :
           i < j =>
               /\ OrderOf(stepList[i].id) < OrderOf(stepList[j].id)
               /\ stepList[i].endTime # NoValue
               /\ stepList[i].endTime[1] <= stepList[j].startTime

\* C24: the steps of runCompleteWorkflow run one at a time in the order
\* assets, seo, performance, launch-checklist, deployment: a step starts only
\* after the step before it is terminal, the launch-checklist step runs in
\* every run, and result.steps lists the executed steps in that order, each id
\* at most once.
C24_SequentialFixedOrder ==
    /\ OneAtATimeInOrder(steps)
    /\ result # NoValue =>
           /\ result[1].steps = steps
           /\ OneAtATimeInOrder(result[1].steps)
           /\ "launch-checklist" \in StepIds(result[1].steps)

\* a run that executed all five steps has returned
C24_Witness ==
    /\ result # NoValue
    /\ [i \in DOMAIN result[1].steps |-> result[1].steps[i].id] = StepOrder

\* C25: every step of the WorkflowResult that runCompleteWorkflow returns is
\* completed, failed or skipped (never pending or running), has startTime <=
\* endTime and duration = endTime - startTime, and has an error text exactly
\* when its status is failed.
C25_ReturnedStepsWellFormed ==
    result # NoValue =>
        \A i \in DOMAIN result[1].steps :
            LET step == result[1].steps[i]
            IN  /\ step.status \in TerminalStatus
                /\ step.status \notin {"pending", "running"}
                /\ step.endTime # NoValue
                /\ step.startTime <= step.endTime[1]
                /\ step.duration = Some(step.endTime[1] - step.startTime)
                /\ (step.error # NoValue) <=> (step.status = "failed")

\* a returned result lists a failed, a skipped and a completed step, the last
\* of them started after the clock had advanced
C25_Witness ==
    /\ result # NoValue
    /\ \E i, j, k \in DOMAIN result[1].steps :
           /\ result[1].steps[i].status = "failed"
           /\ result[1].steps[i].error = Some(ErrorText)
           /\ result[1].steps[j].status = "skipped"
           /\ result[1].steps[k].status = "completed"
           /\ result[1].steps[k].startTime > 0
           /\ result[1].steps[k].duration = Some(StepMs)

\* the summary field holds what the completed step of that id reported
ReportsStep(run, id, name) ==
    \A i \in DOMAIN run.steps :
        (run.steps[i].id = id /\ run.steps[i].status = "completed") =>
            run.summary[name] = run.steps[i].result[1][name]

\* C28: for every combination of skipAssets, skipSEO and skipPerf the summary
\* of the WorkflowResult holds the values the steps reported: when the SEO
\* step ran and completed summary.seoScore is that step's seoScore, and
\* likewise assetsGenerated for the assets step and performanceScore for the
\* performance step.
C28_SummaryReportsSteps ==
    result # NoValue =>
        /\ ReportsStep(result[1], "assets", "assetsGenerated")
        /\ ReportsStep(result[1], "seo", "seoScore")
        /\ ReportsStep(result[1], "performance", "performanceScore")

\* C30: WorkflowResult.deploymentUrl is set only when a deployment step was
\* executed in the run and ended completed; when no deployment step ran, or it
\* ended skipped or failed, deploymentUrl is undefined.
C30_UrlOnlyWhenDeployed ==
    result # NoValue =>
        (result[1].deploymentUrl # NoValue <=>
            \E i \in DOMAIN result[1].steps :
                /\ result[1].steps[i].id = "deployment"
                /\ result[1].steps[i].status = "completed")

----------------------------------------------------------------------------
(* Properties of concurrent saveToHistory calls *)

\* the turn of the step of that name in the call of caller c
TimeOf(c, event) ==
    LET i == CHOOSE k \in DOMAIN calls[c].log : calls[c].log[k][1] = event
    IN  calls[c].log[i][2]

\* the turn in which the call of c took what the history file held: its
\* read, or its begin when it found no file
ReadTime(c) ==
    IF \E k \in DOMAIN calls[c].log : calls[c].log[k][1] = "read"
    THEN TimeOf(c, "read") ELSE TimeOf(c, "begin")

\* both calls have read the history file before either has written it
BothReadFirst == \A c, d \in Callers : ReadTime(c) < TimeOf(d, "open")

\* one call returned before the other began
NotInterleaved ==
    \E c, d \in Callers : TimeOf(c, "returned") < TimeOf(d, "begin")

BothReturned == \A c \in Callers : calls[c].stage = "returned"

\* the history is the list that call c wrote: its entry on top of what it
\* had read, and nothing of the other call
HoldsOnly(c) == history = HistoryText(c).file

\* C27 as stated: when two saveToHistory calls both read the history file
\* before either writes it, the final history holds the entry of exactly one
\* of them; when the calls do not interleave, it holds both.
C27_LostUpdate ==
    BothReturned =>
        /\ BothReadFirst => \E c \in Callers : HoldsOnly(c)
        /\ NotInterleaved =>
               \E c, d \in Callers :
                   /\ c # d
                   /\ HoldsList(history)
                   /\ Len(HistoryEntries) >= 2
                   /\ {HistoryEntries[1], HistoryEntries[2]} = {EntryOf(c), EntryOf(d)}

\* C27: the history file is read and later overwritten without a lock: when
\* two saveToHistory calls both read the file before either writes it, the
\* final history never holds both entries: it is the list of one call, whose
\* entry is on top of what was read, or, when the two writes overlapped,
\* possibly a text that does not parse; when one call returns before the
\* other begins, the history holds both entries, the later one first.
C27_LostUpdateOrBrokenFile ==
    BothReturned =>
        /\ BothReadFirst =>
               \/ history = Some(Garbage)
               \/ \E c \in Callers : HoldsOnly(c)
        /\ NotInterleaved =>
               \E c, d \in Callers :
                   /\ TimeOf(c, "returned") < TimeOf(d, "begin")
                   /\ HoldsList(history)
                   /\ Len(HistoryEntries) >= 2
                   /\ HistoryEntries[1] = EntryOf(d)
                   /\ HistoryEntries[2] = EntryOf(c)

\* two calls that both read a history of one entry before either wrote have
\* returned, and the history holds that entry under the entry of one call
C27_Witness ==
    /\ BothReturned
    /\ BothReadFirst
    /\ HoldsList(history)
    /\ Len(HistoryEntries) = 2

\* two calls whose writes overlapped have returned and left a history file
\* that does not parse
C27_BrokenFile ==
    /\ BothReturned
    /\ BothReadFirst
    /\ history = Some(Garbage)
============================================================================
